---------------------------- MODULE Spec2Model ----------------------------
(***************************************************************************)
(* Model of cpsat-autotune's evaluation engine: the metric strategies      *)
(* (metrics.py), the caching scorer (caching_solver.py), the sampling      *)
(* objective (objective.py), the parameter evaluator                       *)
(* (parameter_evaluator.py) and the tuning entry points (tune.py).         *)
(*                                                                         *)
(* Scores are floats in the program; the model uses integers.  The solve   *)
(* routine is an external black box: every run returns one outcome drawn   *)
(* nondeterministically from SolveOutcomes.                                *)
(***************************************************************************)
EXTENDS Integers, Sequences, FiniteSets, TLC

VARIABLES
    pc,            \* "start" | "metric" | "ready" | "failed"
    raised,        \* "none" or the exception that ended construction
    ctor,          \* the last constructor request: [fn, direction]
    metric,        \* the Metric object, NoMetric before construction
    fixed_params,  \* CachingScorer.fixed_params
    cache,         \* CachingScorer._cache: key -> MultiResult
    solved,        \* ghost: key -> scores the solver runs for it produced, in order
    nSolves,       \* ghost: number of solver runs so far
    call,          \* ghost: the last evaluate call, its arguments and outcome
    objective,     \* objective.py's Objective: its fields and its last __call__
    tuning,        \* tune.py's _tune: its position, locals and return value
    evaluator,     \* parameter_evaluator.py's ParameterEvaluator and its result
    space,         \* parameters.py's descriptors and CpSatParameterSpace
    threads        \* evaluate calls in progress, each with its position and locals

vars == <<pc, raised, ctor, metric, fixed_params, cache, solved, nSolves, call,
          objective, tuning, evaluator, space, threads>>

---------------------------------------------------------------------------
(* Bounds of the model *)

\* largest num_runs a caller asks for
MaxRuns == 3

\* solver runs in one session
MaxSolves == 3

---------------------------------------------------------------------------
(* Small helpers *)

Abs(x) == IF x < 0 THEN -x ELSE x

Min2(a, b) == IF a <= b THEN a ELSE b

Max2(a, b) == IF a >= b THEN a ELSE b

Range(s) == {s[i] : i \in 1..Len(s)}

SeqsUpTo(S, n) == UNION {[1..l -> S] : l \in 0..n}

IsPrefix(s, t) == Len(s) <= Len(t) /\ SubSeq(t, 1, Len(s)) = s

\* n copies of x: Python's [x] * n
Repeat(x, n) == [i \in 1..n |-> x]

---------------------------------------------------------------------------
(* metrics.py : Comparison, Metric *)

WORSE == "WORSE"
EQUAL == "EQUAL"
BETTER == "BETTER"

Directions == {"minimize", "maximize"}

NoMetric == [kind |-> "none"]

\* a constructor that stores the direction without validating it
MetricInit_Unchecked(direction) == [ok |-> TRUE, direction |-> direction]

\* Metric.__init__: the direction is validated, then stored
MetricInit(direction) ==
    IF direction \notin {"minimize", "maximize"}
    THEN [ok |-> FALSE, raises |-> "ValueError"]
    ELSE [ok |-> TRUE, direction |-> direction]

\* the key best() and worst() hand to max()/min():
\* key if the direction is maximize, lambda x: -key(x) otherwise
DirKey(direction, x) == IF direction = "maximize" THEN x ELSE -x

\* Python's max(values, key=k): the first element whose key is largest
RECURSIVE PyMax(_, _)
PyMax(direction, s) ==
    IF Len(s) = 1 THEN s[1]
    ELSE LET m == PyMax(direction, SubSeq(s, 1, Len(s) - 1))
             x == s[Len(s)]
         IN IF DirKey(direction, x) > DirKey(direction, m) THEN x ELSE m

\* Python's min(values, key=k): the first element whose key is smallest
RECURSIVE PyMin(_, _)
PyMin(direction, s) ==
    IF Len(s) = 1 THEN s[1]
    ELSE LET m == PyMin(direction, SubSeq(s, 1, Len(s) - 1))
             x == s[Len(s)]
         IN IF DirKey(direction, x) < DirKey(direction, m) THEN x ELSE m

\* best() picking with min() where max() belongs
best_WithMin(m, values) == PyMin(m.direction, values)

\* Metric.best
best(m, values) == PyMax(m.direction, values)

\* Metric.worst
worst(m, values) == PyMin(m.direction, values)

\* a comparison that takes the larger value for the better one whatever the
\* direction
comp_Numeric(m, a, b) ==
    IF a = b THEN EQUAL ELSE IF a > b THEN BETTER ELSE WORSE

\* Metric.comp
comp(m, a, b) ==
    IF a = b THEN EQUAL
    ELSE IF m.direction = "maximize"
         THEN (IF a > b THEN BETTER ELSE WORSE)
         ELSE (IF a < b THEN BETTER ELSE WORSE)

---------------------------------------------------------------------------
(* The external solve routine: what one run reports *)

OPTIMAL == "OPTIMAL"
FEASIBLE == "FEASIBLE"
INFEASIBLE == "INFEASIBLE"
UNKNOWN == "UNKNOWN"

\* a run that ended with a feasible solution: status in (OPTIMAL, FEASIBLE)
HasSolution(o) == o.status \in {OPTIMAL, FEASIBLE}

\* the objective values, solve times and gap integrals runs report
Values == {1, 2}

Outcome(s, obj, bound, time, gi) ==
    [status |-> s, objective_value |-> obj, best_objective_bound |-> bound,
     wall_time |-> time, gap_integral |-> gi]

\* runs that found nothing (timeout, or infeasibility shown)
NoSolutionOutcomes == {Outcome(s, 0, 0, 0, 0) : s \in {UNKNOWN, INFEASIBLE}}

---------------------------------------------------------------------------
(* metrics.py : the metric strategies *)

Kinds == {"MaxObjective", "MinObjective", "MinTimeToOptimal",
          "MinGapWithinTimelimit", "MinGapIntegralWithinTimelimit"}

\* the default of par_multiplier
DefaultParMultiplier == 10

\* the default of tune_for_gap_within_timelimit's limit
DefaultLimit == 10

MetricObject(kind, direction, max_time, obj_for_timeout, par, limit) ==
    [kind |-> kind, direction |-> direction, max_time_in_seconds |-> max_time,
     obj_for_timeout |-> obj_for_timeout, par_multiplier |-> par, limit |-> limit]

\* MaxObjective.__init__
MaxObjectiveInit(max_time, obj_for_timeout) ==
    LET base == MetricInit("maximize")
    IN MetricObject("MaxObjective", base.direction, max_time, obj_for_timeout, 0, 0)

\* MinObjective.__init__
MinObjectiveInit(max_time, obj_for_timeout) ==
    LET base == MetricInit("minimize")
    IN MetricObject("MinObjective", base.direction, max_time, obj_for_timeout, 0, 0)

\* MinTimeToOptimal.__init__
MinTimeToOptimalInit(max_time, par) ==
    LET base == MetricInit("minimize")
    IN MetricObject("MinTimeToOptimal", base.direction, max_time, 0, par, 0)

\* MinGapWithinTimelimit.__init__
MinGapWithinTimelimitInit(max_time, limit) ==
    LET base == MetricInit("minimize")
    IN MetricObject("MinGapWithinTimelimit", base.direction, max_time, 0, 0, limit)

\* MinGapIntegralWithinTimelimit.__init__
MinGapIntegralWithinTimelimitInit(max_time, limit) ==
    LET base == MetricInit("minimize")
    IN MetricObject("MinGapIntegralWithinTimelimit", base.direction, max_time, 0, 0, limit)

\* MaxObjective.__call__ and MinObjective.__call__ (the same body)
ObjectiveCall(m, o) ==
    IF HasSolution(o) THEN o.objective_value ELSE m.obj_for_timeout

\* an unproven run scored with the time limit itself, the penalty multiplier
\* forgotten
MinTimeToOptimalCall_NoPenalty(m, o) ==
    IF o.status = OPTIMAL THEN o.wall_time ELSE m.max_time_in_seconds

\* MinTimeToOptimal.__call__: the measured time if optimality was proven
MinTimeToOptimalCall(m, o) ==
    IF o.status = OPTIMAL THEN o.wall_time
    ELSE m.max_time_in_seconds * m.par_multiplier

\* the relative gap abs(obj - bound) / max(1, abs(obj)), in hundredths, rounded down
RelativeGap(o) ==
    (100 * Abs(o.objective_value - o.best_objective_bound))
        \div Max2(1, Abs(o.objective_value))

\* MinGapWithinTimelimit.__call__: min(gap, limit), the gap being inf without a solution
MinGapWithinTimelimitCall(m, o) ==
    IF HasSolution(o) THEN Min2(RelativeGap(o), m.limit) ELSE m.limit

\* MinGapIntegralWithinTimelimit.__call__: min(limit, gap_integral), inf without a solution
MinGapIntegralWithinTimelimitCall(m, o) ==
    IF HasSolution(o) THEN Min2(m.limit, o.gap_integral) ELSE m.limit

\* metric(solver, model): the score of one solver run
MetricCall(m, o) ==
    CASE m.kind \in {"MaxObjective", "MinObjective"} -> ObjectiveCall(m, o)
      [] m.kind = "MinTimeToOptimal" -> MinTimeToOptimalCall(m, o)
      [] m.kind = "MinGapWithinTimelimit" -> MinGapWithinTimelimitCall(m, o)
      [] m.kind = "MinGapIntegralWithinTimelimit" -> MinGapIntegralWithinTimelimitCall(m, o)

\* Metric.knockout_score of each strategy
knockout_score(m) ==
    CASE m.kind \in {"MaxObjective", "MinObjective"} -> m.obj_for_timeout
      [] m.kind = "MinTimeToOptimal" -> m.max_time_in_seconds * m.par_multiplier
      [] m.kind \in {"MinGapWithinTimelimit", "MinGapIntegralWithinTimelimit"} -> m.limit

\* the optimal objective value of the problem instance: the best of Values
Optimum(m) ==
    IF m.direction = "maximize"
    THEN CHOOSE v \in Values : \A w \in Values : w <= v
    ELSE CHOOSE v \in Values : \A w \in Values : v <= w

\* The outcomes one run can report, up to the fields the metric does not read
\* (those are left 0): the status always, and the objective value, the bound,
\* the measured time or the gap integral as the strategy needs them.
SolveOutcomes(m) ==
    CASE m.kind \in {"MaxObjective", "MinObjective"} ->
            NoSolutionOutcomes \cup
            {Outcome(FEASIBLE, v, 0, 0, 0) : v \in Values} \cup
            {Outcome(OPTIMAL, Optimum(m), 0, 0, 0)}
      [] m.kind = "MinTimeToOptimal" ->
            NoSolutionOutcomes \cup {Outcome(FEASIBLE, 0, 0, 0, 0)} \cup
            {Outcome(OPTIMAL, 0, 0, t, 0) : t \in Values}
      [] m.kind = "MinGapWithinTimelimit" ->
            NoSolutionOutcomes \cup
            {Outcome(OPTIMAL, v, v, 0, 0) : v \in Values} \cup
            {Outcome(FEASIBLE, v, b, 0, 0) : v \in Values, b \in Values}
      [] m.kind = "MinGapIntegralWithinTimelimit" ->
            NoSolutionOutcomes \cup
            {Outcome(s, 0, 0, 0, g) : s \in {OPTIMAL, FEASIBLE}, g \in {0} \cup Values}

---------------------------------------------------------------------------
(* Parameter assignments: dict[str, float | int | bool | list | tuple] *)

\* A value carries its Python type: a list never equals a tuple, and a scalar
\* never equals a sequence.
PInt(x) == [type |-> "int", items |-> <<x>>]
PList(s) == [type |-> "list", items |-> s]
PTuple(s) == [type |-> "tuple", items |-> s]

\* the empty dict
EmptyDict == <<>>

\* Python's sorted(): ascending, by insertion
RECURSIVE Insert(_, _)
Insert(x, s) ==
    IF s = <<>> THEN <<x>>
    ELSE IF x <= s[1] THEN <<x>> \o s
    ELSE <<s[1]>> \o Insert(x, Tail(s))

RECURSIVE sorted(_)
sorted(s) == IF s = <<>> THEN <<>> ELSE Insert(s[1], sorted(Tail(s)))

---------------------------------------------------------------------------
(* caching_solver.py : MultiResult *)

MultiResult(scores, params) == [scores |-> scores, params |-> params]

\* a knockout result that keeps the raw scores
as_knockout_result_Raw(result, m) == result

\* MultiResult.as_knockout_result: the worst score, once per stored score
as_knockout_result(result, m) ==
    MultiResult(Repeat(worst(m, result.scores), Len(result.scores)), result.params)

---------------------------------------------------------------------------
(* caching_solver.py : CachingScorer *)

\* the optional knockout_score argument: <<>> is None, <<x>> is x
NoKnockout == <<>>

\* lists turned into tuples without sorting them
replace_lists_Unsorted(value) ==
    IF value.type = "list" THEN PTuple(value.items)
    ELSE IF value.type = "tuple" THEN PTuple(value.items)
    ELSE value

\* _create_key_from_params._replace_lists
replace_lists(value) ==
    IF value.type = "list" THEN PTuple(sorted(value.items))
    ELSE IF value.type = "tuple" THEN PTuple(sorted(value.items))
    ELSE value

\* CachingScorer._create_key_from_params: a frozenset of (name, value) pairs
create_key_from_params(params) ==
    {<<key, replace_lists(params[key])>> : key \in DOMAIN params}

\* the fixed parameters left in the assignment
remove_fixed_params_Kept(params) == params

\* CachingScorer._remove_fixed_params
remove_fixed_params(params) ==
    [key \in {k \in DOMAIN params : k \notin DOMAIN fixed_params} |-> params[key]]

\* a lookup that never finds the stored entry
CacheGet_Miss(param_key, params) == MultiResult(<<>>, params)

\* self._cache.get(param_key, MultiResult(scores=[], params=params))
CacheGet(param_key, params) ==
    IF param_key \in DOMAIN cache THEN cache[param_key]
    ELSE MultiResult(<<>>, params)

\* self._cache[param_key] = result
CachePut(c, param_key, result) ==
    [k \in DOMAIN c \cup {param_key} |-> IF k = param_key THEN result ELSE c[k]]

\* the knockout test of evaluate: comp(score, knockout_score) in (WORSE, EQUAL)
IsKnockedOut(m, score, knockout) ==
    knockout # NoKnockout /\ comp(m, score, knockout[1]) \in {WORSE, EQUAL}

\* the stored scores not counted: n_missing = num_runs
NMissing_All(num_runs, result) == num_runs

\* n_missing = num_runs - len(result)
NMissing(num_runs, result) == num_runs - Len(result.scores)

\* scores inserted at the front instead of appended
RECURSIVE AppendScores_Front(_, _, _)
AppendScores_Front(m, scores, outs) ==
    IF outs = <<>> THEN scores
    ELSE AppendScores_Front(m, <<MetricCall(m, Head(outs))>> \o scores, Tail(outs))

\* result.scores.append(score), once per run
RECURSIVE AppendScores(_, _, _)
AppendScores(m, scores, outs) ==
    IF outs = <<>> THEN scores
    ELSE AppendScores(m, Append(scores, MetricCall(m, Head(outs))), Tail(outs))

\* a loop that breaks after its first run, knocked out or not
LoopRuns_BreakAlways(m, n_missing, knockout) ==
    {outs \in SeqsUpTo(SolveOutcomes(m), n_missing) : Len(outs) = 1}

\* The runs the loop of evaluate can make: it stops after n_missing runs, or
\* right after the first run whose score is knocked out.
LoopRuns(m, n_missing, knockout) ==
    {outs \in SeqsUpTo(SolveOutcomes(m), n_missing) :
        /\ Len(outs) >= 1
        /\ \A i \in 1..(Len(outs) - 1) : ~IsKnockedOut(m, MetricCall(m, outs[i]), knockout)
        /\ \/ Len(outs) = n_missing
           \/ IsKnockedOut(m, MetricCall(m, outs[Len(outs)]), knockout)}

\* no evaluate call yet
NoCall ==
    [params |-> EmptyDict, key |-> {}, num_runs |-> 0, knockout_score |-> NoKnockout,
     found |-> 0, outcomes |-> <<>>, knocked |-> FALSE,
     returned |-> MultiResult(<<>>, EmptyDict)]

\* what an evaluate call was given (params, num_runs, knockout_score), the key it
\* built, the number of scores it found stored, the solver runs it made, whether
\* it returned a knockout result, and the MultiResult it returned
CallRecord(params, key, num_runs, knockout, found, outs, knocked, returned) ==
    [params |-> params, key |-> key, num_runs |-> num_runs, knockout_score |-> knockout,
     found |-> found, outcomes |-> outs, knocked |-> knocked, returned |-> returned]

\* no _tune call yet
NoTuning == [state |-> "none"]

\* the solver runs one session may make: MaxSolves, and in a _tune session the
\* runs of its baseline on top
SolveBudget ==
    IF tuning = NoTuning THEN MaxSolves
    ELSE MaxSolves + tuning.n_samples_for_verification

\* CachingScorer.evaluate(params, num_runs, knockout_score)
evaluate(raw_params, num_runs, knockout) ==
    LET params == remove_fixed_params(raw_params)
        param_key == create_key_from_params(params)
        result == CacheGet(param_key, params)
        found == Len(result.scores)
    IN /\ pc = "ready"
       /\ IF Len(result.scores) >= num_runs
          THEN \* the cached result is returned
               /\ call' = CallRecord(raw_params, param_key, num_runs, knockout, found,
                                     <<>>, FALSE, result)
               /\ UNCHANGED <<cache, solved, nSolves>>
          ELSE IF /\ knockout # NoKnockout
                  /\ Len(result.scores) > 0
                  /\ IsKnockedOut(metric, worst(metric, result.scores), knockout)
          THEN \* the cached knockout result is returned
               /\ call' = CallRecord(raw_params, param_key, num_runs, knockout, found,
                                     <<>>, TRUE, as_knockout_result(result, metric))
               /\ UNCHANGED <<cache, solved, nSolves>>
          ELSE \* the loop: one solver run per missing score, until a knockout
               LET n_missing == NMissing(num_runs, result)
               IN /\ nSolves + n_missing <= SolveBudget
                  /\ \E outs \in LoopRuns(metric, n_missing, knockout) :
                        LET grown == MultiResult(
                                AppendScores(metric, result.scores, outs), result.params)
                            knocked == IsKnockedOut(metric,
                                MetricCall(metric, outs[Len(outs)]), knockout)
                        IN /\ cache' = CachePut(cache, param_key, grown)
                           /\ solved' = CachePut(solved, param_key,
                                 (IF param_key \in DOMAIN solved
                                  THEN solved[param_key] ELSE <<>>)
                                 \o [i \in 1..Len(outs) |-> MetricCall(metric, outs[i])])
                           /\ nSolves' = nSolves + Len(outs)
                           /\ call' = CallRecord(raw_params, param_key, num_runs, knockout,
                                        found, outs, knocked,
                                        IF knocked THEN as_knockout_result(grown, metric)
                                        ELSE grown)
       /\ UNCHANGED <<pc, raised, ctor, metric, fixed_params>>

---------------------------------------------------------------------------
(* Construction *)

AnyDirections == Directions \cup {"sideways"}

\* the time budgets, timeout objectives, penalty multipliers and gap limits
\* callers pass; gaps and gap limits are counted in hundredths
TimeLimits == {2}
TimeoutObjectives == {0}
ParMultipliers == {DefaultParMultiplier}
Limits == {1, 100 * DefaultLimit}

\* no parameter descriptor, no CpSatParameterSpace and no evaluate call in
\* progress yet
NoSpace == [state |-> "none"]
NoThreads == <<>>

\* no Objective and no ParameterEvaluator yet
NoObjective == [state |-> "none"]
NoEvaluator == [state |-> "none"]

Init ==
    /\ pc = "start"
    /\ raised = "none"
    /\ ctor = [fn |-> "none", direction |-> "none"]
    /\ metric = NoMetric
    /\ fixed_params = EmptyDict
    /\ cache = EmptyDict
    /\ solved = EmptyDict
    /\ nSolves = 0
    /\ call = NoCall
    /\ objective = NoObjective
    /\ tuning = NoTuning
    /\ evaluator = NoEvaluator
    /\ space = NoSpace
    /\ threads = NoThreads

\* A Metric subclass constructed with a direction its caller chose: Metric.__init__
NewMetric(direction) ==
    LET base == MetricInit(direction)
    IN /\ pc = "start"
       /\ ctor' = [fn |-> "Metric", direction |-> direction]
       /\ IF base.ok
          THEN /\ metric' = [kind |-> "Metric", direction |-> base.direction]
               /\ pc' = "metric"
               /\ UNCHANGED raised
          ELSE /\ raised' = base.raises
               /\ pc' = "failed"
               /\ UNCHANGED metric
       /\ UNCHANGED <<fixed_params, cache, solved, nSolves, call>>
       /\ UNCHANGED <<objective, tuning, evaluator, space, threads>>

\* One of the strategies of metrics.py constructed by a caller
NewStrategy(m) ==
    /\ pc = "start"
    /\ ctor' = [fn |-> m.kind, direction |-> m.direction]
    /\ metric' = m
    /\ pc' = "metric"
    /\ UNCHANGED <<raised, fixed_params, cache, solved, nSolves, call>>
    /\ UNCHANGED <<objective, tuning, evaluator, space, threads>>

\* CachingScorer.__init__(model, metric, fixed_params)
CachingScorerInit(fixed) ==
    /\ pc = "metric"
    /\ metric.kind \in Kinds
    /\ cache' = EmptyDict
    /\ fixed_params' = fixed
    /\ pc' = "ready"
    /\ UNCHANGED <<raised, ctor, metric, solved, nSolves, call>>
    /\ UNCHANGED <<objective, tuning, evaluator, space, threads>>

\* tune_for_quality_within_timelimit up to its call of _tune, and the scorer
\* _tune creates first: CachingScorer(model, metric)
tune_for_quality_within_timelimit(max_time, obj_for_timeout, direction) ==
    /\ pc = "start"
    /\ ctor' = [fn |-> "tune_for_quality_within_timelimit", direction |-> direction]
    /\ IF direction = "maximize"
       THEN /\ metric' = MaxObjectiveInit(max_time, obj_for_timeout)
            /\ pc' = "ready"
            /\ UNCHANGED raised
       ELSE IF direction = "minimize"
       THEN /\ metric' = MinObjectiveInit(max_time, obj_for_timeout)
            /\ pc' = "ready"
            /\ UNCHANGED raised
       ELSE /\ raised' = "ValueError"
            /\ pc' = "failed"
            /\ UNCHANGED metric
    /\ UNCHANGED <<fixed_params, cache, solved, nSolves, call>>
    /\ UNCHANGED <<objective, tuning, evaluator, space, threads>>

---------------------------------------------------------------------------
(* The inputs of evaluate *)

\* num_runs
RunCounts == 1..MaxRuns

\* knockout_score of the scorer's callers in Spec: None or 1, a score that is
\* better than some scores, equal to one and worse than others
ScorerKnockouts == {NoKnockout, <<1>>}

Dict1(k, v) == [x \in {k} |-> v]

\* the assignments of the scorer's callers in Spec
ScorerParams ==
    {EmptyDict,
     Dict1("ignore_subsolvers", PList(<<2, 1>>)),
     Dict1("ignore_subsolvers", PTuple(<<1, 2>>))}

Evaluate ==
    /\ pc = "ready"
    /\ \E raw_params \in ScorerParams, num_runs \in RunCounts,
          knockout \in ScorerKnockouts :
            evaluate(raw_params, num_runs, knockout)
    /\ UNCHANGED <<objective, tuning, evaluator, space, threads>>

Next ==
    \/ \E d \in AnyDirections, t \in TimeLimits, o \in TimeoutObjectives :
          tune_for_quality_within_timelimit(t, o, d)
    \/ Evaluate

\* The scorer as _tune sets it up for tune_for_quality_within_timelimit, under
\* any sequence of evaluate calls.
Spec == Init /\ [][Next]_vars

---------------------------------------------------------------------------
(* The scorer with fixed parameters and many assignments, one run per call *)

\* fixed_params of CachingScorer.__init__
FixedChoices == {EmptyDict, Dict1("symmetry_level", PInt(1))}

\* assignments over ignore_subsolvers (a list or a tuple) and symmetry_level
\* (a scalar), each present or not
OptionalEntry(name, values) == {EmptyDict} \cup {Dict1(name, v) : v \in values}

Merge(d1, d2) ==
    [k \in DOMAIN d1 \cup DOMAIN d2 |-> IF k \in DOMAIN d1 THEN d1[k] ELSE d2[k]]

KeyParams ==
    {Merge(a, b) :
        a \in OptionalEntry("ignore_subsolvers",
                 {PList(<<2, 1>>), PTuple(<<1, 2>>), PTuple(<<1, 1>>), PList(<<1>>)}),
        b \in OptionalEntry("symmetry_level", {PInt(1)})}

EvaluateKeys ==
    /\ pc = "ready"
    /\ \E raw_params \in KeyParams : evaluate(raw_params, 1, NoKnockout)
    /\ UNCHANGED <<objective, tuning, evaluator, space, threads>>

NextKeys ==
    \/ \E t \in TimeLimits : NewStrategy(MinTimeToOptimalInit(t, DefaultParMultiplier))
    \/ \E fixed \in FixedChoices : CachingScorerInit(fixed)
    \/ EvaluateKeys

SpecKeys == Init /\ [][NextKeys]_vars

---------------------------------------------------------------------------
(* Every metric strategy, scoring the default assignment *)

Strategies ==
    {MaxObjectiveInit(t, o) : t \in TimeLimits, o \in TimeoutObjectives} \cup
    {MinObjectiveInit(t, o) : t \in TimeLimits, o \in {3}} \cup
    {MinTimeToOptimalInit(t, p) : t \in TimeLimits, p \in ParMultipliers} \cup
    {MinGapWithinTimelimitInit(t, l) : t \in TimeLimits, l \in Limits} \cup
    {MinGapIntegralWithinTimelimitInit(t, l) : t \in TimeLimits, l \in Limits}

EvaluateDefault ==
    /\ pc = "ready"
    /\ \E num_runs \in RunCounts,
          knockout \in {NoKnockout, <<knockout_score(metric)>>} :
            evaluate(EmptyDict, num_runs, knockout)
    /\ UNCHANGED <<objective, tuning, evaluator, space, threads>>

NextMetrics ==
    \/ \E d \in AnyDirections : NewMetric(d)
    \/ \E d \in AnyDirections, t \in TimeLimits, o \in TimeoutObjectives :
          tune_for_quality_within_timelimit(t, o, d)
    \/ \E m \in Strategies : NewStrategy(m)
    \/ CachingScorerInit(EmptyDict)
    \/ EvaluateDefault

SpecMetrics == Init /\ [][NextMetrics]_vars

---------------------------------------------------------------------------
(* Properties *)

\* the scores stored for a key, none if the key has no entry
Stored(c, key) == IF key \in DOMAIN c THEN c[key].scores ELSE <<>>

\* the scores of the solver runs made for a key, in the order they completed
RunsFor(key) == IF key \in DOMAIN solved THEN solved[key] ELSE <<>>

\* a step of the scorer: an evaluate call that is not a repetition without effect
EvaluateStep == pc = "ready" /\ pc' = "ready"

\* score a is no better than b: comp(a, b) in (WORSE, EQUAL), by the direction
NoBetter(a, b) ==
    IF metric.direction = "maximize" THEN a <= b ELSE a >= b

SetMin(S) == CHOOSE x \in S : \A y \in S : x <= y
SetMax(S) == CHOOSE x \in S : \A y \in S : x >= y

\* the worst value of a non-empty set of scores, by the direction
WorstOf(S) == IF metric.direction = "maximize" THEN SetMin(S) ELSE SetMax(S)

\* C1: evaluate(a, n) right after evaluate(a, n), n >= 1 and no knockout score
\* in either, returns the same scores and makes no solver run.
C1_Idempotent ==
    [][(/\ EvaluateStep
        /\ call.num_runs >= 1
        /\ call'.key = call.key
        /\ call'.num_runs = call.num_runs
        /\ call.knockout_score = NoKnockout
        /\ call'.knockout_score = NoKnockout)
       => /\ call'.returned.scores = call.returned.scores
          /\ call'.outcomes = <<>>
          /\ nSolves' = nSolves
          /\ cache' = cache]_vars

\* the state after a call without knockout score that found exactly num_runs
\* scores stored
C1_Witness ==
    /\ pc = "ready"
    /\ call.knockout_score = NoKnockout
    /\ call.num_runs >= 2
    /\ call.found = call.num_runs
    /\ call.outcomes = <<>>
    /\ Len(call.returned.scores) = call.num_runs

\* The case of C2: a call with a knockout score for an assignment that has
\* fewer than num_runs scores, after which every score of the assignment is no
\* better than the knockout score (those stored before, or the one run made).
C2_Case ==
    /\ pc = "ready"
    /\ call.num_runs >= 1
    /\ call.knockout_score # NoKnockout
    /\ call.found < call.num_runs
    /\ Stored(cache, call.key) # <<>>
    /\ \A x \in Range(Stored(cache, call.key)) : NoBetter(x, call.knockout_score[1])

\* C2 as claimed: the knockout result has exactly num_runs entries, all the
\* worst observed value, after at most k + 1 solver runs.
C2_Original ==
    C2_Case =>
        /\ Len(call.returned.scores) = call.num_runs
        /\ \A x \in Range(call.returned.scores) :
              x = WorstOf(Range(Stored(cache, call.key)))
        /\ Len(RunsFor(call.key)) <= call.found + 1

\* C2 amended: the knockout result has one entry per score stored for the
\* assignment (at most num_runs), all the worst observed value, after at most
\* k + 1 solver runs.
C2_KnockoutFlattening ==
    C2_Case =>
        /\ call.knocked
        /\ Len(call.returned.scores) = Len(Stored(cache, call.key))
        /\ Len(call.returned.scores) <= call.num_runs
        /\ \A x \in Range(call.returned.scores) :
              x = WorstOf(Range(Stored(cache, call.key)))
        /\ Len(call.outcomes) <= 1
        /\ Len(RunsFor(call.key)) <= call.found + 1

\* two stored scores that differ, both no better than the knockout score
C2_Witness ==
    /\ C2_Case
    /\ call.found = 2
    /\ call.num_runs = 3
    /\ Cardinality(Range(Stored(cache, call.key))) = 2

\* The case of C3: evaluate(a, n2) right after evaluate(a, n1), n2 > n1, no
\* knockout score in either.
C3_Case ==
    /\ EvaluateStep
    /\ call.num_runs >= 1
    /\ call'.key = call.key
    /\ call'.num_runs > call.num_runs
    /\ call.knockout_score = NoKnockout
    /\ call'.knockout_score = NoKnockout

\* C3 as claimed: the later result has exactly n2 scores, the first n1 of which
\* are the scores of the earlier result.
C3_Original ==
    [][C3_Case =>
        /\ Len(call'.returned.scores) = call'.num_runs
        /\ SubSeq(call'.returned.scores, 1, call.num_runs) = call.returned.scores]_vars

\* C3 amended: the scores of the earlier result are a prefix of the later
\* result, which has max(n2, length of the earlier result) scores: exactly n2,
\* starting with the n1 earlier scores, when the earlier result had n1 scores.
C3_MonotonicGrowth ==
    [][C3_Case =>
        /\ IsPrefix(call.returned.scores, call'.returned.scores)
        /\ Len(call'.returned.scores) =
              Max2(call'.num_runs, Len(call.returned.scores))
        /\ (Len(call.returned.scores) = call.num_runs =>
              /\ Len(call'.returned.scores) = call'.num_runs
              /\ SubSeq(call'.returned.scores, 1, call.num_runs) =
                    call.returned.scores)]_vars

\* the state after a call without knockout score that extended a stored result
C3_Witness ==
    /\ pc = "ready"
    /\ call.knockout_score = NoKnockout
    /\ call.found >= 1
    /\ call.num_runs > call.found
    /\ Len(call.returned.scores) = call.num_runs
    /\ Len(call.outcomes) = call.num_runs - call.found

\* C4: a call that finds c scores stored makes no solver run if c >= num_runs;
\* if c < num_runs and no knockout occurs it makes exactly num_runs - c runs
\* and appends one score per run.
C4_SolverRuns ==
    [][EvaluateStep =>
        LET c == Len(Stored(cache, call'.key))
            made == nSolves' - nSolves
        IN /\ c >= call'.num_runs => made = 0 /\ cache' = cache
           /\ (c < call'.num_runs /\ ~call'.knocked) =>
                 /\ made = call'.num_runs - c
                 /\ Len(call'.outcomes) = made
                 /\ Len(Stored(cache', call'.key)) = c + made]_vars

\* the state after a call with a knockout score that found scores stored and
\* ran the missing runs without a knockout
C4_Witness ==
    /\ pc = "ready"
    /\ call.knockout_score # NoKnockout
    /\ ~call.knocked
    /\ call.found >= 1
    /\ Len(call.outcomes) = call.num_runs - call.found
    /\ Len(call.outcomes) >= 2

\* C5: the scores stored for an assignment only grow by appending (an earlier
\* stored sequence is a prefix of every later one, no entry disappears), and
\* they are the scores of the assignment's solver runs in the order the runs
\* completed; a knockout result is never stored.
C5_AppendOnly ==
    /\ [](/\ DOMAIN cache = DOMAIN solved
          /\ \A k \in DOMAIN cache : cache[k].scores = solved[k])
    /\ [][\A k \in DOMAIN cache :
            /\ k \in DOMAIN cache'
            /\ IsPrefix(cache[k].scores, cache'[k].scores)]_vars

\* the state after a call that found scores stored, ran and was knocked out:
\* the returned scores are flattened, the stored ones are not
C5_Witness ==
    /\ pc = "ready"
    /\ call.knocked
    /\ call.found >= 1
    /\ Len(call.outcomes) >= 1
    /\ call.returned.scores # Stored(cache, call.key)
    /\ Cardinality(DOMAIN cache) = 2

\* the number of occurrences of x in sequence s
Count(x, s) == Cardinality({i \in 1..Len(s) : s[i] = x})

\* lists or tuples that are equal once sorted: the same items, as often
SameItems(s, t) ==
    /\ Len(s) = Len(t)
    /\ \A x \in Range(s) \cup Range(t) : Count(x, s) = Count(x, t)

\* values that are equal after every list or tuple is sorted
SameValue(v, w) ==
    IF v.type \in {"list", "tuple"} /\ w.type \in {"list", "tuple"}
    THEN SameItems(v.items, w.items)
    ELSE v = w

\* assignments that are equal as sets of (name, value) pairs once every list or
\* tuple value is sorted
SameNormalized(a, b) ==
    /\ DOMAIN a = DOMAIN b
    /\ \A name \in DOMAIN a : SameValue(a[name], b[name])

\* an assignment without the names of the fixed parameters
WithoutFixed(a) ==
    [name \in DOMAIN a \ DOMAIN fixed_params |-> a[name]]

\* C6: the assignment of a call resolves to the cache entry of an assignment
\* stored earlier if and only if the two are equal, after sorting every list or
\* tuple value, as sets of (name, value) pairs.
C6_KeyEquality ==
    (pc = "ready" /\ call.num_runs >= 1) =>
        /\ call.key \in DOMAIN cache
        /\ \A k \in DOMAIN cache :
              (call.key = k) <=>
                 SameNormalized(cache[k].params, WithoutFixed(call.params))

\* a list [2, 1] resolved to the entry a tuple (1, 2) created, beside an entry
\* of another tuple
C6_Witness ==
    /\ pc = "ready"
    /\ "ignore_subsolvers" \in DOMAIN call.params
    /\ call.params["ignore_subsolvers"] = PList(<<2, 1>>)
    /\ call.key \in DOMAIN cache
    /\ cache[call.key].params["ignore_subsolvers"] = PTuple(<<1, 2>>)
    /\ \E k \in DOMAIN cache : k # call.key /\ DOMAIN cache[k].params = DOMAIN call.params

\* C7: evaluate drops the fixed parameters before it builds the key: a call
\* whose assignment differs from a stored one only on fixed names resolves to
\* that entry, no stored params hold a fixed name, and evaluate leaves
\* fixed_params as it is.
C7_FixedParams ==
    /\ [](pc = "ready" =>
            /\ \A k \in DOMAIN cache : DOMAIN cache[k].params \cap DOMAIN fixed_params = {}
            /\ call.num_runs >= 1 =>
                 \A k \in DOMAIN cache :
                    WithoutFixed(call.params) = cache[k].params => call.key = k)
    /\ [][pc = "ready" => fixed_params' = fixed_params]_vars

\* an assignment that sets the fixed parameter, resolved to the entry an
\* assignment without it created
C7_Witness ==
    /\ pc = "ready"
    /\ DOMAIN call.params \cap DOMAIN fixed_params # {}
    /\ call.found >= 1
    /\ call.key \in DOMAIN cache
    /\ cache[call.key].params # call.params
    /\ cache[call.key].params = WithoutFixed(call.params)

\* C8: on every non-empty collection of scores, best() is the smallest and
\* worst() the largest element under minimize, and the reverse under maximize.
C8_BestWorst ==
    pc = "ready" =>
        \A k \in DOMAIN cache :
            LET s == cache[k].scores
            IN IF metric.direction = "minimize"
               THEN best(metric, s) = SetMin(Range(s)) /\ worst(metric, s) = SetMax(Range(s))
               ELSE best(metric, s) = SetMax(Range(s)) /\ worst(metric, s) = SetMin(Range(s))

\* the scores [3, 1, 2] under minimize
C8_Witness ==
    /\ pc = "ready"
    /\ metric.direction = "minimize"
    /\ \E k \in DOMAIN cache : cache[k].scores = <<3, 1, 2>>

\* C9: a Metric constructed with a direction other than minimize or maximize
\* fails with ValueError and leaves no metric; tune_for_quality_within_timelimit
\* with such a direction fails with ValueError before a scorer, a solver run or
\* an evaluate call exists, and nothing follows; the direction of a metric
\* never changes.
C9_InvalidDirection ==
    /\ [](/\ ctor.fn \in {"Metric", "tune_for_quality_within_timelimit"} =>
               (ctor.direction \notin {"minimize", "maximize"} <=> pc = "failed")
          /\ pc = "failed" =>
               /\ raised = "ValueError"
               /\ metric = NoMetric
               /\ cache = EmptyDict /\ nSolves = 0 /\ call = NoCall
          /\ pc \in {"metric", "ready"} =>
               /\ raised = "none"
               /\ metric.direction \in {"minimize", "maximize"}
               /\ ctor.fn \in {"Metric", "tune_for_quality_within_timelimit"} =>
                     metric.direction = ctor.direction)
    /\ [][/\ pc = "failed" => FALSE
          /\ metric # NoMetric => metric' # NoMetric /\ metric'.direction = metric.direction]_vars

\* a rejected direction
C9_Witness ==
    /\ pc = "failed"
    /\ raised = "ValueError"
    /\ ctor.direction = "sideways"

\* a run that ended without what the strategy asks for: a proof of optimality
\* for MinTimeToOptimal, a feasible solution for the others
RunFailed(m, o) ==
    IF m.kind = "MinTimeToOptimal" THEN o.status # OPTIMAL ELSE ~HasSolution(o)

\* C10: a run that ends without a feasible solution (MinTimeToOptimal: without
\* a proof of optimality) scores knockout_score(), no exception is raised, the
\* score is appended like any other and, without a knockout, the call goes on
\* to its remaining runs.
C10_FallbackScore ==
    (pc = "ready" /\ call.num_runs >= 1) =>
        /\ raised = "none"
        /\ Len(Stored(cache, call.key)) = call.found + Len(call.outcomes)
        /\ \A i \in 1..Len(call.outcomes) :
              RunFailed(metric, call.outcomes[i]) =>
                 Stored(cache, call.key)[call.found + i] = knockout_score(metric)
        /\ (call.knockout_score = NoKnockout /\ call.found < call.num_runs) =>
              Len(call.outcomes) = call.num_runs - call.found

\* a call whose first run failed and that went on to more runs
C10_Witness ==
    /\ pc = "ready"
    /\ metric.kind = "MinTimeToOptimal"
    /\ Len(call.outcomes) >= 3
    /\ RunFailed(metric, call.outcomes[1])
    /\ call.outcomes[1].status = FEASIBLE
    /\ ~RunFailed(metric, call.outcomes[3])

---------------------------------------------------------------------------
(* MinTimeToOptimal under any penalty multiplier and time budget *)

\* max_time_in_seconds and par_multiplier of MinTimeToOptimal.__init__, which
\* stores whatever it is given
PenaltyTimeLimits == {1, 2}
PenaltyMultipliers == {0, 1, 2, DefaultParMultiplier}

NextPenalty ==
    \/ \E t \in PenaltyTimeLimits, p \in PenaltyMultipliers :
          NewStrategy(MinTimeToOptimalInit(t, p))
    \/ CachingScorerInit(EmptyDict)
    \/ EvaluateDefault

SpecPenalty == Init /\ [][NextPenalty]_vars

\* the score evaluate stored for the i-th run of the last call
RunScore(i) == Stored(cache, call.key)[call.found + i]

\* C11: a MinTimeToOptimal run that does not prove optimality scores
\* max_time_in_seconds * par_multiplier, and that score compares WORSE than the
\* score of every run that proved optimality within the time budget, whatever
\* par_multiplier and time budget the constructor was given.
C11_PenaltyWorse ==
    (pc = "ready" /\ metric.kind = "MinTimeToOptimal") =>
        \A i \in 1..Len(call.outcomes) :
            call.outcomes[i].status # OPTIMAL =>
                /\ RunScore(i) = metric.max_time_in_seconds * metric.par_multiplier
                /\ \A j \in 1..Len(call.outcomes) :
                      (/\ call.outcomes[j].status = OPTIMAL
                       /\ call.outcomes[j].wall_time <= metric.max_time_in_seconds) =>
                          comp(metric, RunScore(i), RunScore(j)) = WORSE

\* metrics.py MinObjective and MaxObjective, as C12 states them
NegatedObjectiveScore(m, o) ==
    IF m.kind = "MaxObjective"
    THEN (IF HasSolution(o) THEN o.objective_value ELSE m.obj_for_timeout)
    ELSE (IF HasSolution(o) THEN -o.objective_value ELSE -m.obj_for_timeout)

\* C12: MaxObjective scores a run with its objective value, or the timeout
\* value when no solution was found; MinObjective scores it with the negated
\* objective value, or the negated timeout value.
C12_NegatedObjective ==
    (pc = "ready" /\ metric.kind \in {"MaxObjective", "MinObjective"}) =>
        \A i \in 1..Len(call.outcomes) :
            RunScore(i) = NegatedObjectiveScore(metric, call.outcomes[i])

---------------------------------------------------------------------------
(* objective.py : the metrics that score higher-is-better, and Objective *)

\* objective.py's Metric subclasses keep one field
LegacyMetric(kind, obj_for_timeout) == [kind |-> kind, obj_for_timeout |-> obj_for_timeout]

\* objective.py MaxObjective.__call__; obj_value is None unless the status is
\* OPTIMAL or FEASIBLE (Objective._solve)
LegacyMaxObjectiveCall(m, o) ==
    IF HasSolution(o) THEN o.objective_value ELSE m.obj_for_timeout

\* objective.py MinObjective.__call__
LegacyMinObjectiveCall(m, o) ==
    IF HasSolution(o) THEN -o.objective_value ELSE -m.obj_for_timeout

\* objective.py MinTimeToOptimal.__call__
LegacyMinTimeToOptimalCall(m, o) ==
    IF o.status = OPTIMAL THEN -o.wall_time ELSE -m.obj_for_timeout

\* Objective._solve: self.metric(status=status, obj_value=obj, time_in_s=solve_time)
LegacySolve(m, o) ==
    CASE m.kind = "MaxObjective" -> LegacyMaxObjectiveCall(m, o)
      [] m.kind = "MinObjective" -> LegacyMinObjectiveCall(m, o)
      [] m.kind = "MinTimeToOptimal" -> LegacyMinTimeToOptimalCall(m, o)

\* sum(), min() and max() of a list of numbers
RECURSIVE SumSeq(_)
SumSeq(s) == IF s = <<>> THEN 0 ELSE Head(s) + SumSeq(Tail(s))

MinOf(s) == CHOOSE x \in Range(s) : \A y \in Range(s) : x <= y

MaxOf(s) == CHOOSE x \in Range(s) : \A y \in Range(s) : x >= y

\* np.mean of a list, as the fraction sum / len
Fraction(num, den) == [num |-> num, den |-> den]

MeanOf(s) == Fraction(SumSeq(s), Len(s))

\* a threshold with the whole spread as its margin
PruneIfBelow10_WholeSpread(baseline) ==
    10 * MinOf(baseline) - 10 * (MaxOf(baseline) - MinOf(baseline))

\* prune_if_below = min(baseline) - 0.1 * (max(baseline) - min(baseline)),
\* times 10
PruneIfBelow10(baseline) == 10 * MinOf(baseline) - (MaxOf(baseline) - MinOf(baseline))

\* value < prune_if_below
BelowPrune(value, baseline) == 10 * value < PruneIfBelow10(baseline)

\* the objective values the runs of Objective report, and the outcomes
ObjectiveValues == {10, 12, 13, 14}

ObjectiveOutcomes ==
    {Outcome(UNKNOWN, 0, 0, 0, 0)} \cup
    {Outcome(FEASIBLE, v, 0, 0, 0) : v \in ObjectiveValues}

\* the metrics, n_samples_per_param and max_samples_per_param given to Objective
ObjectiveMetrics == {LegacyMetric("MaxObjective", 0), LegacyMetric("MinObjective", 20)}
SamplesPerParam == {1, 2}
MaxSamplesPerParam == {3}

\* Objective._get_key_from_trial: the parameters the trial changes, none for
\* the default trial
DefaultKey == {}
TrialKeys == {DefaultKey, {<<"cut_level", PInt(0)>>}}

\* self._samples: a defaultdict(list)
SamplesOf(samples, key) == IF key \in DOMAIN samples THEN samples[key] ELSE <<>>

\* no __call__ yet
NoTrial ==
    [key |-> DefaultKey, baseline_runs |-> 0, values |-> <<>>, pruned |-> FALSE,
     ret |-> Fraction(0, 1)]

\* Objective.__init__
ObjectiveInit(m, n_samples_per_param, max_samples_per_param) ==
    /\ pc = "start"
    /\ pc' = "objective"
    /\ objective' = [state |-> "ready", metric |-> m,
                     n_samples_per_param |-> n_samples_per_param,
                     max_samples_per_param |-> max_samples_per_param,
                     baseline |-> <<>>, samples |-> EmptyDict, trial |-> NoTrial]
    /\ UNCHANGED <<raised, ctor, metric, fixed_params, cache, solved, nSolves, call,
                   tuning, evaluator, space, threads>>

\* the values of the runs of __call__'s loop: it ends after n_trials runs, or
\* right after the first value below prune_if_below
TrialRuns(m, n_trials, baseline) ==
    {outs \in SeqsUpTo(ObjectiveOutcomes, n_trials) :
        /\ \A i \in 1..(Len(outs) - 1) : ~BelowPrune(LegacySolve(m, outs[i]), baseline)
        /\ \/ Len(outs) = n_trials
           \/ Len(outs) >= 1 /\ BelowPrune(LegacySolve(m, outs[Len(outs)]), baseline)}

\* Objective.__call__(trial), compute_baseline included
Objective_call(param_key) ==
    /\ pc = "objective"
    /\ LET m == objective.metric
           first == objective.baseline = <<>>
       IN \E base_outs \in (IF first
                            THEN SeqsUpTo(ObjectiveOutcomes, objective.max_samples_per_param)
                            ELSE {<<>>}) :
            /\ first => Len(base_outs) = objective.max_samples_per_param
            /\ LET values == [i \in 1..Len(base_outs) |-> LegacySolve(m, base_outs[i])]
                   baseline == IF first THEN values ELSE objective.baseline
                   samples0 == IF first
                               THEN CachePut(objective.samples, DefaultKey,
                                      SamplesOf(objective.samples, DefaultKey) \o values)
                               ELSE objective.samples
                   n_trials == IF param_key \in DOMAIN samples0
                               THEN Max2(Min2(objective.max_samples_per_param
                                                - Len(samples0[param_key]),
                                              objective.n_samples_per_param), 0)
                               ELSE objective.n_samples_per_param
               IN \E outs \in TrialRuns(m, n_trials, baseline) :
                    LET new == [i \in 1..Len(outs) |-> LegacySolve(m, outs[i])]
                        pruned == Len(new) >= 1 /\ BelowPrune(new[Len(new)], baseline)
                        samples1 == IF Len(new) = 0 /\ param_key \notin DOMAIN samples0
                                    THEN samples0
                                    ELSE CachePut(samples0, param_key,
                                           SamplesOf(samples0, param_key) \o new)
                    IN objective' = [objective EXCEPT
                          !.baseline = baseline,
                          !.samples = samples1,
                          !.trial = [key |-> param_key,
                                     baseline_runs |-> Len(base_outs),
                                     values |-> new,
                                     pruned |-> pruned,
                                     ret |-> IF pruned THEN Fraction(new[Len(new)], 1)
                                             ELSE MeanOf(SamplesOf(samples1, param_key))]]
    /\ UNCHANGED <<pc, raised, ctor, metric, fixed_params, cache, solved, nSolves, call,
                   tuning, evaluator, space, threads>>

NextObjective ==
    \/ \E m \in ObjectiveMetrics, n \in SamplesPerParam, x \in MaxSamplesPerParam :
          ObjectiveInit(m, n, x)
    \/ \E param_key \in TrialKeys : Objective_call(param_key)

SpecObjective == Init /\ [][NextObjective]_vars

\* the quantity a metric of objective.py optimizes, from its score: the score
\* itself under MaxObjective, its negation under MinObjective
Quantity(m, score) == IF m.kind = "MaxObjective" THEN score ELSE -score

\* the worst and the spread of the baseline, in the optimized quantity
WorstQuantity(m, baseline) ==
    IF m.kind = "MaxObjective"
    THEN SetMin({Quantity(m, x) : x \in Range(baseline)})
    ELSE SetMax({Quantity(m, x) : x \in Range(baseline)})

SpreadOf(baseline) == SetMax(Range(baseline)) - SetMin(Range(baseline))

\* beyond the knockout threshold: below worst - 0.1 * spread when maximizing,
\* above worst + 0.1 * spread when minimizing
BeyondThreshold(m, score, baseline) ==
    IF m.kind = "MaxObjective"
    THEN 10 * Quantity(m, score) < 10 * WorstQuantity(m, baseline) - SpreadOf(baseline)
    ELSE 10 * Quantity(m, score) > 10 * WorstQuantity(m, baseline) + SpreadOf(baseline)

\* the number of samples the trial's assignment had before the trial
SamplesBefore ==
    Len(SamplesOf(objective.samples, objective.trial.key)) - Len(objective.trial.values)

\* C13: in every trial the candidate is abandoned exactly at a run whose value lies beyond
\* baseline.worst + 0.1 * spread (minimize) or baseline.worst - 0.1 * spread
\* (maximize): the trial makes no run after such a run and returns its value,
\* and makes all its runs when there is none.  With the baseline
\* [10, 12, 11, 13, 10] under minimize the threshold is 13.3 and a first run
\* of 14 lies beyond it.
C13_KnockoutThreshold ==
    /\ PruneIfBelow10(<<-10, -12, -11, -13, -10>>) = -133
    /\ BelowPrune(-14, <<-10, -12, -11, -13, -10>>)
    /\ ~BelowPrune(-13, <<-10, -12, -11, -13, -10>>)
    /\ (pc = "objective" /\ objective.baseline # <<>>) =>
         LET m == objective.metric
             t == objective.trial
             n == Len(t.values)
         IN /\ \A i \in 1..n :
                  BeyondThreshold(m, t.values[i], objective.baseline)
                     <=> (i = n /\ t.pruned)
            /\ t.pruned => n >= 1 /\ t.ret = Fraction(t.values[n], 1)
            /\ (~t.pruned /\ t.key # DefaultKey) =>
                  n = (IF SamplesBefore = 0 THEN objective.n_samples_per_param
                       ELSE Max2(0, Min2(objective.n_samples_per_param,
                                         objective.max_samples_per_param - SamplesBefore)))

\* minimize, baseline worst 13 and spread 3: a candidate due two runs whose
\* first run scores 14 made that run only
C13_Witness ==
    /\ pc = "objective"
    /\ objective.metric.kind = "MinObjective"
    /\ objective.n_samples_per_param = 2
    /\ Range(objective.baseline) = {-10, -13}
    /\ objective.trial.key # DefaultKey
    /\ SamplesBefore = 0
    /\ objective.trial.values = <<-14>>
    /\ objective.trial.pruned

---------------------------------------------------------------------------
(* tune.py : _tune, the per-trial strategy it drives, and what it returns *)

mean_Total(result) == Fraction(SumSeq(result.scores), 1)

\* MultiResult.mean
mean(result) == MeanOf(result.scores)

\* MultiResult.spread: max() - min()
spread(result) == MaxOf(result.scores) - MinOf(result.scores)

\* Metric.comp on two means
CompMean(m, f, g) == comp(m, f.num * g.den, g.num * f.den)

CeilDiv(a, b) == (a + b - 1) \div b

\* The knockout threshold of a trial: baseline.worst + 0.1 * baseline.spread
\* under minimize, baseline.worst - 0.1 * baseline.spread under maximize.
\* Scores are integers here, and an integer score is no better than the
\* threshold exactly if it is no better than the threshold rounded away from
\* the worst score, which is the value kept.
KnockoutThreshold(m, baseline) ==
    IF m.direction = "minimize"
    THEN worst(m, baseline.scores) + CeilDiv(spread(baseline), 10)
    ELSE worst(m, baseline.scores) - CeilDiv(spread(baseline), 10)

\* the keys of the cached results whose mean no cached result beats: what the
\* strategy's best_params() chooses from
BestKeys(m, c) ==
    {k \in DOMAIN c :
        \A j \in DOMAIN c : CompMean(m, mean(c[j]), mean(c[k])) # BETTER}

\* the best mean over all cached assignments
BestMean(m, c) == mean(c[CHOOSE k \in BestKeys(m, c) : TRUE])

\* n_samples_for_verification, n_samples_for_trial and n_trials of _tune
VerificationSamples == {2}
TrialSamples == {1}
TrialCounts == {1, 2}

\* the assignments the sampler proposes: the default one and two candidates
TuneCandidates ==
    {EmptyDict, Dict1("cut_level", PInt(0)), Dict1("symmetry_level", PInt(1))}

\* _tune up to the strategy: the baseline of the default parameters
\*   default_baseline = scorer.evaluate({}, n_samples_for_verification)
TuneBaseline(n_samples_for_verification, n_samples_for_trial, n_trials) ==
    /\ pc = "ready"
    /\ tuning = NoTuning
    /\ ctor.fn = "tune_for_quality_within_timelimit"
    /\ cache = EmptyDict
    /\ evaluate(EmptyDict, n_samples_for_verification, NoKnockout)
    /\ tuning' = [state |-> "trials",
                  n_samples_for_verification |-> n_samples_for_verification,
                  n_samples_for_trial |-> n_samples_for_trial,
                  n_trials |-> n_trials,
                  done |-> 0,
                  candidate |-> EmptyDict,
                  knockout |-> NoKnockout,
                  trial |-> MultiResult(<<>>, EmptyDict),
                  best_before |-> Fraction(0, 1),
                  promote |-> FALSE,
                  solves_at_trial |-> 0,
                  verify |-> NoCall,
                  ret |-> Fraction(0, 1),
                  best_params |-> MultiResult(<<>>, EmptyDict),
                  result |-> [optimized_params |-> EmptyDict],
                  returned |-> EmptyDict]
    /\ UNCHANGED <<objective, evaluator, space, threads>>

\* The strategy's __call__(trial), steps 1 to 4 and the test of step 5: the
\* baseline is retrieved, the threshold computed, the candidate evaluated with
\* n_samples_for_trial runs, and its mean compared with the best cached mean.
StrategyTrial(params) ==
    /\ pc = "ready"
    /\ tuning.state = "trials"
    /\ tuning.done < tuning.n_trials
    /\ LET baseline == cache[create_key_from_params(EmptyDict)]
           threshold == KnockoutThreshold(metric, baseline)
       IN /\ evaluate(params, tuning.n_samples_for_trial, <<threshold>>)
          /\ tuning' = [tuning EXCEPT
                !.state = "evaluated",
                !.candidate = params,
                !.knockout = <<threshold>>,
                !.trial = call'.returned,
                !.best_before = BestMean(metric, cache'),
                !.promote =
                    CompMean(metric, mean(call'.returned), BestMean(metric, cache'))
                       \in {BETTER, EQUAL},
                !.solves_at_trial = nSolves',
                !.verify = NoCall]
    /\ UNCHANGED <<objective, evaluator, space, threads>>

\* The strategy's __call__(trial), steps 5 and 6: a candidate whose mean is at
\* least as good as the best cached mean is evaluated again with
\* n_samples_for_verification runs; the mean of the last evaluation is returned.
\* (For the default assignment the second evaluation is answered from the
\* cache, which holds the baseline's runs.)
StrategyReturn ==
    /\ pc = "ready"
    /\ tuning.state = "evaluated"
    /\ IF tuning.promote
       THEN /\ evaluate(tuning.candidate, tuning.n_samples_for_verification,
                        tuning.knockout)
            /\ tuning' = [tuning EXCEPT
                  !.state = "trials",
                  !.done = @ + 1,
                  !.verify = call',
                  !.ret = mean(call'.returned)]
       ELSE /\ tuning' = [tuning EXCEPT
                  !.state = "trials",
                  !.done = @ + 1,
                  !.ret = mean(tuning.trial)]
            /\ UNCHANGED <<pc, raised, ctor, metric, fixed_params,
                           cache, solved, nSolves, call>>
    /\ UNCHANGED <<objective, evaluator, space, threads>>

\* What the evaluator hands back for the best assignment: an EvaluationResult
\* whose optimized_params are some of the assignment's parameters, or all of
\* them.
EvaluatorOutcomes(params) ==
    {[optimized_params |-> [k \in kept |-> params[k]]] : kept \in SUBSET DOMAIN params}

\* what _tune would return if it handed back the evaluator's parameter set
TuneReturn_Evaluated(best_params, result) == result.optimized_params

\* return best_params in _tune, and .params of it in the entry point
TuneReturn(best_params, result) == best_params.params

\* _tune after study.optimize: best_params = objective.best_params(), the
\* evaluator's result is printed, best_params is returned; the entry point
\* returns _tune(...).params
TuneFinish ==
    /\ pc = "ready"
    /\ tuning.state = "trials"
    /\ tuning.done = tuning.n_trials
    /\ \E k \in BestKeys(metric, cache) :
         \E result \in EvaluatorOutcomes(cache[k].params) :
            tuning' = [tuning EXCEPT
                !.state = "returned",
                !.best_params = cache[k],
                !.result = result,
                !.returned = TuneReturn(cache[k], result)]
    /\ UNCHANGED <<pc, raised, ctor, metric, fixed_params, cache, solved, nSolves, call,
                   objective, evaluator, space, threads>>

NextTune ==
    \/ \E d \in AnyDirections, t \in TimeLimits, o \in TimeoutObjectives :
          tune_for_quality_within_timelimit(t, o, d)
    \/ \E v \in VerificationSamples, n \in TrialSamples, t \in TrialCounts :
          TuneBaseline(v, n, t)
    \/ \E params \in TuneCandidates : StrategyTrial(params)
    \/ StrategyReturn
    \/ TuneFinish

SpecTune == Init /\ [][NextTune]_vars

\* one StrategyReturn step: the end of a strategy call
StrategyReturnStep == tuning.state = "evaluated" /\ tuning'.state = "trials"

\* the candidate's mean after its n_samples_for_trial evaluation is BETTER
\* than or EQUAL to the best mean over all cached assignments
AtLeastAsGood ==
    \A k \in DOMAIN cache :
        comp(metric,
             SumSeq(tuning.trial.scores) * Len(cache[k].scores),
             SumSeq(cache[k].scores) * Len(tuning.trial.scores)) \in {BETTER, EQUAL}

---------------------------------------------------------------------------
(* parameter_evaluator.py : ParameterEvaluator *)

\* EvaluationResult. The two scores are the values handed to metric.convert,
\* which no Metric of metrics.py defines; they are kept unconverted, as
\* fractions.
EvaluationResult(optimized_params, contribution, default_score, optimized_score) ==
    [optimized_params |-> optimized_params, contribution |-> contribution,
     default_score |-> default_score, optimized_score |-> optimized_score]

\* the objective values a run of a variant can report, and its outcomes
VariantValues == {55, 61, 62, 65, 98}
VariantOutcomes ==
    {Outcome(UNKNOWN, 0, 0, 0, 0)} \cup
    {Outcome(FEASIBLE, v, 0, 0, 0) : v \in VariantValues}

\* the arguments of ParameterEvaluator.__init__
EvaluatorMetrics == {MaxObjectiveInit(2, 0), MinObjectiveInit(2, 100)}
EvaluatorParams ==
    {Dict1("A", PInt(1)),
     [k \in {"A", "B"} |-> IF k = "A" THEN PInt(1) ELSE PInt(5)]}
DefaultScores == {60, 100}
BaselineValues == {<<>>, <<55, 65>>}
MinBaselineSizes == {2}

\* ParameterEvaluator.__init__
ParameterEvaluatorInit(params, m, default_score, baseline_values, min_baseline_size) ==
    /\ pc = "start"
    /\ pc' = "evaluator"
    /\ evaluator' = [state |-> "constructed",
                     params |-> params,
                     metric |-> m,
                     default_score |-> default_score,
                     baseline_scores |-> baseline_values,
                     min_baseline_size |-> min_baseline_size,
                     scores |-> EmptyDict,
                     kept |-> {},
                     diffs |-> EmptyDict,
                     optimized_score |-> 0,
                     result |-> EvaluationResult(EmptyDict, EmptyDict, 0, Fraction(0, 1))]
    /\ UNCHANGED <<raised, ctor, metric, fixed_params, cache, solved, nSolves, call,
                   objective, tuning, space, threads>>

\* the runs the while loop adds to the baseline
BaselineRuns(baseline_scores, min_baseline_size) ==
    Max2(min_baseline_size - Len(baseline_scores), 0)

\* worst_baseline = min(self.baseline_scores)
worst_baseline(baseline_scores) == MinOf(baseline_scores)

\* a test that drops a parameter only above worst_baseline
IsDropped_Above(score, baseline_scores) == score > worst_baseline(baseline_scores)

\* if score >= worst_baseline: the parameter is dropped
IsDropped(score, baseline_scores) == score >= worst_baseline(baseline_scores)

\* kept parameters that take each other's values
KeptParams_Swapped(params, kept) ==
    [key \in kept |-> params[CHOOSE other \in DOMAIN params :
                                 DOMAIN params = {key} \/ other # key]]

\* optimized_params[key] = self.params[key], for the kept keys
KeptParams(params, kept) == [key \in kept |-> params[key]]

\* abs(baseline_avg - score), times len(baseline_scores)
Diff(baseline_scores, score) ==
    Abs(SumSeq(baseline_scores) - Len(baseline_scores) * score)

RECURSIVE SumValues(_, _)
\* sum(diffs.values())
SumValues(f, keys) ==
    IF keys = {} THEN 0
    ELSE LET k == CHOOSE x \in keys : TRUE
         IN f[k] + SumValues(f, keys \ {k})

\* the raw differences, not divided by their sum
significance_Raw(diffs) == [key \in DOMAIN diffs |-> Fraction(diffs[key], 1)]

\* significance = {key: diff / total_diff for key, diff in diffs.items()}
significance(diffs) ==
    [key \in DOMAIN diffs |-> Fraction(diffs[key], SumValues(diffs, DOMAIN diffs))]

\* if optimized_score < worst_baseline: revert to the initial parameters
IsReverted(optimized_score, baseline_scores) ==
    optimized_score < worst_baseline(baseline_scores)

\* ParameterEvaluator.evaluate: the baseline is filled up to min_baseline_size
\* runs, every parameter is left out once and the variant run once, the kept
\* parameters are run once more.
ParameterEvaluator_evaluate ==
    /\ pc = "evaluator"
    /\ evaluator.state = "constructed"
    /\ \E baseline_runs \in [1 .. BaselineRuns(evaluator.baseline_scores,
                                               evaluator.min_baseline_size)
                               -> VariantOutcomes],
          variant_runs \in [DOMAIN evaluator.params -> VariantOutcomes],
          final_run \in VariantOutcomes :
         LET m == evaluator.metric
             baseline_scores ==
                 evaluator.baseline_scores \o
                 [i \in DOMAIN baseline_runs |-> MetricCall(m, baseline_runs[i])]
             scores == [key \in DOMAIN evaluator.params |-> MetricCall(m, variant_runs[key])]
             kept == {key \in DOMAIN evaluator.params :
                         ~IsDropped(scores[key], baseline_scores)}
             optimized_params == KeptParams(evaluator.params, kept)
             diffs == [key \in kept |-> Diff(baseline_scores, scores[key])]
             optimized_score == MetricCall(m, final_run)
         IN evaluator' = [evaluator EXCEPT
                !.state = "returned",
                !.baseline_scores = baseline_scores,
                !.scores = scores,
                !.kept = kept,
                !.diffs = diffs,
                !.optimized_score = optimized_score,
                !.result =
                    IF IsReverted(optimized_score, baseline_scores)
                    THEN EvaluationResult(evaluator.params, EmptyDict,
                                          evaluator.default_score,
                                          MeanOf(baseline_scores))
                    ELSE EvaluationResult(optimized_params, significance(diffs),
                                          evaluator.default_score,
                                          Fraction(optimized_score, 1))]
    /\ UNCHANGED <<pc, raised, ctor, metric, fixed_params, cache, solved, nSolves, call,
                   objective, tuning, space, threads>>

NextEvaluator ==
    \/ \E params \in EvaluatorParams, m \in EvaluatorMetrics, d \in DefaultScores,
          b \in BaselineValues, n \in MinBaselineSizes :
          ParameterEvaluatorInit(params, m, d, b, n)
    \/ ParameterEvaluator_evaluate

SpecEvaluator == Init /\ [][NextEvaluator]_vars

\* evaluate() has returned
EvaluatorReturned == evaluator.state = "returned"

\* the candidate's mean is strictly worse than the baseline score under the
\* metric's ordering
CandidateWorse ==
    comp(evaluator.metric, SumSeq(evaluator.baseline_scores),
         evaluator.default_score * Len(evaluator.baseline_scores)) = WORSE

\* C15: whenever evaluate() returns for a winning assignment whose candidate
\* score is strictly worse than the baseline score under the metric's ordering,
\* the result's optimized_params and contribution are both empty and no
\* parameter was swept.
C15_Rejection ==
    (EvaluatorReturned /\ CandidateWorse) =>
        /\ evaluator.result.optimized_params = EmptyDict
        /\ evaluator.result.contribution = EmptyDict
        /\ DOMAIN evaluator.scores = {}

\* the score without a parameter compares EQUAL or BETTER, under the metric's
\* direction, to (worst(candidate_baseline) + mean(candidate_baseline)) / 2;
\* both sides are taken times 2 * len(candidate_baseline)
MeetsAcceptThreshold(score) ==
    LET b == evaluator.baseline_scores
    IN comp(evaluator.metric,
            2 * Len(b) * score,
            Len(b) * worst(evaluator.metric, b) + SumSeq(b)) \in {EQUAL, BETTER}

\* C16: whenever evaluate() returns, every parameter p of the winning
\* assignment was scored with only p removed; p was dropped exactly if that
\* score compares EQUAL or BETTER to the accept threshold, the midpoint of the
\* candidate's worst score and its mean, and otherwise p was kept with the raw
\* contribution |mean(candidate_baseline) - score_without_p|.
C16_LeaveOneOut ==
    EvaluatorReturned =>
        /\ DOMAIN evaluator.scores = DOMAIN evaluator.params
        /\ \A p \in DOMAIN evaluator.params :
              /\ (p \notin evaluator.kept) <=> MeetsAcceptThreshold(evaluator.scores[p])
              /\ p \in evaluator.kept =>
                    evaluator.diffs[p] =
                        Abs(SumSeq(evaluator.baseline_scores)
                            - Len(evaluator.baseline_scores) * evaluator.scores[p])

\* the scenario, in tenths: a minimize metric, baseline 10.0, candidate
\* {A: True, B: 5} with runs 5.5 and 6.5, 9.8 without A, 6.1 without B, and
\* 6.2 for the pruned assignment
Scenario ==
    /\ EvaluatorReturned
    /\ evaluator.metric.direction = "minimize"
    /\ evaluator.default_score = 100
    /\ DOMAIN evaluator.params = {"A", "B"}
    /\ evaluator.baseline_scores = <<55, 65>>
    /\ evaluator.scores["A"] = 98
    /\ evaluator.scores["B"] = 61
    /\ evaluator.optimized_score = 62

\* C17: in the scenario (minimize, baseline mean 10.0, candidate {A: True,
\* B: 5} with mean 6.0, worst 6.5, best 5.5, 9.8 without A, 6.1 without B,
\* pruned assignment at 6.2) the evaluator returns optimized_params = {B: 5}
\* with contribution = {B: 1.0}.
C17_Scenario ==
    Scenario =>
        /\ evaluator.result.optimized_params = Dict1("B", PInt(5))
        /\ DOMAIN evaluator.result.contribution = {"B"}
        /\ evaluator.result.contribution["B"].num = evaluator.result.contribution["B"].den

\* the score of the pruned assignment is strictly worse than the best
\* observation of the full candidate
PruningHurt ==
    comp(evaluator.metric, evaluator.optimized_score,
         best(evaluator.metric, evaluator.baseline_scores)) = WORSE

\* C18: whenever evaluate() returns, then, if the worst observation of the
\* pruned assignment's score is strictly worse than the best observation of
\* the full candidate, the result is the original winning assignment with an
\* empty contribution and the candidate's mean as its score; otherwise it is
\* the pruned assignment with its contribution shares and the pruned score.
C18_FinalVerify ==
    EvaluatorReturned =>
        IF PruningHurt
        THEN /\ evaluator.result.optimized_params = evaluator.params
             /\ evaluator.result.contribution = EmptyDict
             /\ evaluator.result.optimized_score = MeanOf(evaluator.baseline_scores)
        ELSE /\ evaluator.result.optimized_params =
                    [p \in evaluator.kept |-> evaluator.params[p]]
             /\ DOMAIN evaluator.result.contribution = evaluator.kept
             /\ evaluator.result.optimized_score = Fraction(evaluator.optimized_score, 1)

\* the shares of a contribution: one positive share per parameter, summing to 1
IsShares(contribution, params) ==
    /\ DOMAIN contribution = DOMAIN params
    /\ \A p \in DOMAIN contribution :
          /\ contribution[p].num > 0
          /\ contribution[p].den > 0
          /\ contribution[p].den =
                SumValues([q \in DOMAIN contribution |-> contribution[q].num],
                          DOMAIN contribution)

\* C19 as stated: in every EvaluationResult, contribution holds one
\* non-negative share for each accepted parameter, the shares sum to 1, and it
\* is empty if the accepted subset is empty.
C19_Original ==
    EvaluatorReturned =>
        LET r == evaluator.result
        IN /\ DOMAIN r.contribution = DOMAIN r.optimized_params
           /\ \A p \in DOMAIN r.contribution :
                 /\ r.contribution[p].num >= 0
                 /\ r.contribution[p].den > 0
                 /\ r.contribution[p].den =
                       SumValues([q \in DOMAIN r.contribution |-> r.contribution[q].num],
                                 DOMAIN r.contribution)

\* C19: in every EvaluationResult evaluate() returns, contribution is empty
\* when the result is the reverted original assignment or when no parameter
\* was kept; in every other result it holds one positive share for each
\* parameter of optimized_params and the shares sum to 1.
C19_ContributionShares ==
    EvaluatorReturned =>
        LET r == evaluator.result
            reverted == IsReverted(evaluator.optimized_score, evaluator.baseline_scores)
        IN IF reverted
           THEN r.contribution = EmptyDict /\ r.optimized_params = evaluator.params
           ELSE IsShares(r.contribution, r.optimized_params)

\* a result that keeps both parameters with their shares, neither share being
\* the whole
C19_Witness ==
    /\ EvaluatorReturned
    /\ DOMAIN evaluator.result.contribution = {"A", "B"}
    /\ evaluator.result.contribution["A"].num # evaluator.result.contribution["B"].num
    /\ ~IsReverted(evaluator.optimized_score, evaluator.baseline_scores)

\* the entry point has returned
TuneReturned == tuning.state = "returned"

---------------------------------------------------------------------------
(* Properties of Metric.comp, of the parameter space and of the sessions *)

\* C25: on the scores of every stored result (and the metric's knockout
\* score), comp(a, b) is EQUAL exactly if a = b, comp(a, b) is BETTER exactly
\* if comp(b, a) is WORSE, BETTER means smaller under minimize and larger under
\* maximize, best() of the scores compares BETTER or EQUAL to each of them and
\* worst() compares WORSE or EQUAL to each of them.
C25_CompConsistent ==
    pc = "ready" =>
        \A k \in DOMAIN cache :
            LET s == cache[k].scores
                V == Range(s) \cup {knockout_score(metric)}
            IN /\ \A a \in V, b \in V :
                     /\ comp(metric, a, b) = EQUAL <=> a = b
                     /\ comp(metric, a, b) = BETTER <=> comp(metric, b, a) = WORSE
                     /\ comp(metric, a, b) = BETTER <=>
                           IF metric.direction = "minimize" THEN a < b ELSE a > b
               /\ \A x \in Range(s) :
                     /\ comp(metric, best(metric, s), x) \in {BETTER, EQUAL}
                     /\ comp(metric, worst(metric, s), x) \in {WORSE, EQUAL}

\* a stored result with three scores, not all equal, under minimize
C25_Witness ==
    /\ pc = "ready"
    /\ metric.direction = "minimize"
    /\ \E k \in DOMAIN cache :
          /\ Len(cache[k].scores) = 3
          /\ cache[k].scores[1] < cache[k].scores[2]
          /\ cache[k].scores[3] < cache[k].scores[2]

\* C29: whenever evaluate() returns, every kept parameter has a strictly
\* positive raw contribution, so the total raw contribution is positive
\* whenever a parameter is kept (the normalization divides by it), and when no
\* parameter is kept the contribution is empty.
C29_PositiveContribution ==
    EvaluatorReturned =>
        /\ DOMAIN evaluator.diffs = evaluator.kept
        /\ \A p \in evaluator.kept : evaluator.diffs[p] > 0
        /\ evaluator.kept # {} => SumValues(evaluator.diffs, evaluator.kept) > 0
        /\ evaluator.kept = {} => evaluator.result.contribution = EmptyDict

\* a parameter was kept although all baseline runs scored the same, so that
\* the baseline's mean is its smallest score
C29_Witness ==
    /\ EvaluatorReturned
    /\ evaluator.kept # {}
    /\ MinOf(evaluator.baseline_scores) = MaxOf(evaluator.baseline_scores)
    /\ DOMAIN evaluator.result.contribution = evaluator.kept

\* C30: evaluate() leaves the winning assignment as it was passed in, the
\* optimized_params of its result hold only names of the winning assignment,
\* each with the value it has there, and the keys of contribution are keys of
\* optimized_params.
C30_SubMapping ==
    [][(evaluator.state = "constructed" /\ evaluator'.state = "returned") =>
         LET r == evaluator'.result
         IN /\ evaluator'.params = evaluator.params
            /\ DOMAIN r.optimized_params \subseteq DOMAIN evaluator.params
            /\ \A p \in DOMAIN r.optimized_params :
                  r.optimized_params[p] = evaluator.params[p]
            /\ DOMAIN r.contribution \subseteq DOMAIN r.optimized_params]_vars

\* a result that keeps B of {A, B} and drops A
C30_Witness ==
    /\ EvaluatorReturned
    /\ DOMAIN evaluator.params = {"A", "B"}
    /\ DOMAIN evaluator.result.optimized_params = {"B"}
    /\ DOMAIN evaluator.result.contribution = {"B"}

---------------------------------------------------------------------------
(* parameter_evaluator.py : ParameterEvaluator.evaluate, statement by
   statement. evaluator.state is the position in the method: "constructed"
   before the call, "baseline" in the while loop, "sweep" in the for loop,
   "final" after the significance is computed, "returned" at the end. *)

\* one iteration of: while len(self.baseline_scores) < self.min_baseline_size
evaluate_baseline_run ==
    /\ pc = "evaluator"
    /\ evaluator.state \in {"constructed", "baseline"}
    /\ Len(evaluator.baseline_scores) < evaluator.min_baseline_size
    /\ \E run \in VariantOutcomes :
          evaluator' = [evaluator EXCEPT
              !.state = "baseline",
              !.baseline_scores = Append(@, MetricCall(evaluator.metric, run))]
    /\ UNCHANGED <<pc, raised, ctor, metric, fixed_params, cache, solved, nSolves, call,
                   objective, tuning, space, threads>>

\* the loop is left: baseline_avg, worst_baseline, optimized_params = {},
\* diffs = {}
evaluate_baseline_done ==
    /\ pc = "evaluator"
    /\ evaluator.state \in {"constructed", "baseline"}
    /\ Len(evaluator.baseline_scores) >= evaluator.min_baseline_size
    /\ evaluator' = [evaluator EXCEPT !.state = "sweep"]
    /\ UNCHANGED <<pc, raised, ctor, metric, fixed_params, cache, solved, nSolves, call,
                   objective, tuning, space, threads>>

\* one iteration of: for key, solver in self._generate_variants(self.params),
\* for a key the loop has not visited (the order is that of the caller's dict)
evaluate_variant ==
    /\ pc = "evaluator"
    /\ evaluator.state = "sweep"
    /\ \E key \in DOMAIN evaluator.params \ DOMAIN evaluator.scores,
          run \in VariantOutcomes :
         LET score == MetricCall(evaluator.metric, run)
             keep == ~IsDropped(score, evaluator.baseline_scores)
             kept == IF keep THEN evaluator.kept \cup {key} ELSE evaluator.kept
         IN evaluator' = [evaluator EXCEPT
                !.scores = [k \in DOMAIN evaluator.scores \cup {key} |->
                               IF k = key THEN score ELSE evaluator.scores[k]],
                !.kept = kept,
                !.diffs = [k \in kept |->
                               IF k = key
                               THEN Diff(evaluator.baseline_scores, score)
                               ELSE evaluator.diffs[k]]]
    /\ UNCHANGED <<pc, raised, ctor, metric, fixed_params, cache, solved, nSolves, call,
                   objective, tuning, space, threads>>

\* the for loop is left: total_diff and significance
evaluate_significance ==
    /\ pc = "evaluator"
    /\ evaluator.state = "sweep"
    /\ DOMAIN evaluator.scores = DOMAIN evaluator.params
    /\ evaluator' = [evaluator EXCEPT
          !.state = "final",
          !.result = EvaluationResult(KeptParams(evaluator.params, evaluator.kept),
                                      significance(evaluator.diffs),
                                      evaluator.default_score, Fraction(0, 1))]
    /\ UNCHANGED <<pc, raised, ctor, metric, fixed_params, cache, solved, nSolves, call,
                   objective, tuning, space, threads>>

\* the final run of optimized_params, the revert test and the return
evaluate_final ==
    /\ pc = "evaluator"
    /\ evaluator.state = "final"
    /\ \E run \in VariantOutcomes :
         LET optimized_score == MetricCall(evaluator.metric, run)
         IN evaluator' = [evaluator EXCEPT
                !.state = "returned",
                !.optimized_score = optimized_score,
                !.result =
                    IF IsReverted(optimized_score, evaluator.baseline_scores)
                    THEN EvaluationResult(evaluator.params, EmptyDict,
                                          evaluator.default_score,
                                          MeanOf(evaluator.baseline_scores))
                    ELSE [@ EXCEPT !.optimized_score = Fraction(optimized_score, 1)]]
    /\ UNCHANGED <<pc, raised, ctor, metric, fixed_params, cache, solved, nSolves, call,
                   objective, tuning, space, threads>>

NextSweep ==
    \/ \E params \in EvaluatorParams, m \in EvaluatorMetrics, d \in DefaultScores,
          b \in BaselineValues, n \in MinBaselineSizes :
          ParameterEvaluatorInit(params, m, d, b, n)
    \/ evaluate_baseline_run
    \/ evaluate_baseline_done
    \/ evaluate_variant
    \/ evaluate_significance
    \/ evaluate_final

SpecSweep == Init /\ [][NextSweep]_vars

\* the decision on a parameter: Candidate until the sweep has scored the
\* assignment without it, then Kept or Dropped
Decision(ev, p) ==
    IF p \notin DOMAIN ev.scores THEN "Candidate"
    ELSE IF p \in ev.kept THEN "Kept" ELSE "Dropped"

\* how a returned evaluation ended
Ending(ev) ==
    IF ev.result.optimized_params = EmptyDict /\ DOMAIN ev.scores = {} THEN "Rejected"
    ELSE IF IsReverted(ev.optimized_score, ev.baseline_scores) THEN "Reverted"
    ELSE "Accepted"

\* C24: in every step of an evaluation a parameter that is Dropped or Kept
\* stays so, and a Candidate is decided in the sweep only; the run goes from
\* the baseline to a check that ends a candidate strictly worse than the
\* baseline as Rejected, with no parameter swept, and lets only the others
\* into the sweep, then to the significance and the final run, and it ends as
\* Rejected, Reverted or Accepted.
C24_StateMachine ==
    [][evaluator.state # "none" =>
         /\ \A p \in DOMAIN evaluator.params :
               /\ Decision(evaluator, p) # "Candidate" =>
                     Decision(evaluator', p) = Decision(evaluator, p)
               /\ Decision(evaluator', p) # Decision(evaluator, p) =>
                     evaluator.state = "sweep"
         /\ (evaluator.state \in {"constructed", "baseline"}
               /\ evaluator'.state = "sweep") => ~CandidateWorse
         /\ (evaluator'.state = "returned" /\ CandidateWorse') =>
               Ending(evaluator') = "Rejected"
         /\ evaluator'.state = "returned" =>
               /\ evaluator.state \in {"baseline", "final"}
               /\ Ending(evaluator') \in {"Rejected", "Reverted", "Accepted"}]_vars

---------------------------------------------------------------------------
(* caching_solver.py : CachingScorer.__iter__, and evaluate calls that ask for
   no run *)

\* an iteration that yields every result flattened to its worst score
scorer_iter_Flattened == {as_knockout_result(cache[k], metric) : k \in DOMAIN cache}

\* CachingScorer.__iter__: the values of the cache
scorer_iter == {cache[k] : k \in DOMAIN cache}

\* evaluate calls with num_runs from 0 on
EvaluateFew ==
    /\ pc = "ready"
    /\ \E raw_params \in {EmptyDict, Dict1("cut_level", PInt(0))},
          num_runs \in 0 .. MaxRuns,
          knockout \in ScorerKnockouts :
            evaluate(raw_params, num_runs, knockout)
    /\ UNCHANGED <<objective, tuning, evaluator, space, threads>>

NextIter ==
    \/ \E d \in AnyDirections, t \in TimeLimits, o \in TimeoutObjectives :
          tune_for_quality_within_timelimit(t, o, d)
    \/ EvaluateFew

SpecIter == Init /\ [][NextIter]_vars

\* C28: every result the iteration over the scorer yields (every stored
\* MultiResult) has at least one score, and its scores are the scores the
\* solver runs for its assignment returned, so no flattened sequence is ever
\* stored; an evaluate call that makes no solver run leaves the cache as it
\* is, and in particular creates no entry, also when what it returns is
\* flattened.
C28_StoredScores ==
    /\ [](pc = "ready" =>
            \A r \in scorer_iter :
                /\ Len(r.scores) >= 1
                /\ r.scores = RunsFor(create_key_from_params(r.params)))
    /\ [][(EvaluateStep /\ nSolves' = nSolves) =>
            /\ cache' = cache
            /\ call'.outcomes = <<>>]_vars

\* a call that made no run has returned a flattened result for an assignment
\* whose stored scores differ, and some call before asked for no run on an
\* assignment that has no entry
C28_Witness ==
    /\ pc = "ready"
    /\ call.knocked
    /\ call.outcomes = <<>>
    /\ call.returned.scores # Stored(cache, call.key)
    /\ \E r \in scorer_iter : r.params # EmptyDict
    /\ create_key_from_params(EmptyDict) \notin DOMAIN cache

---------------------------------------------------------------------------
(* parameters.py : the parameter descriptors;
   parameter_space.py : CpSatParameterSpace *)

\* an optional value: <<>> is None, <<v>> is v
NoValue == <<>>

\* CategoryParameter.__init__
CategoryParameterInit(name, default_value, values) ==
    IF default_value \notin Range(values)
    THEN [ok |-> FALSE, raises |-> "ValueError"]
    ELSE [ok |-> TRUE, kind |-> "CategoryParameter", name |-> name,
          default_value |-> default_value, values |-> values]

\* IntFromOrderedListParameter.__init__: the default is an index into values
IntFromOrderedListParameterInit(name, default_index, values) ==
    [ok |-> TRUE, kind |-> "IntFromOrderedListParameter", name |-> name,
     default_value |-> default_index, values |-> values]

\* get_cpsat_default: the default value, or self.values[self._default_value]
\* with Python's indexing (a negative index counts from the end)
get_cpsat_default(d) ==
    IF d.kind = "CategoryParameter" THEN [ok |-> TRUE, value |-> d.default_value]
    ELSE IF d.default_value \in 0 .. (Len(d.values) - 1)
         THEN [ok |-> TRUE, value |-> d.values[d.default_value + 1]]
    ELSE IF d.default_value \in (-Len(d.values)) .. -1
         THEN [ok |-> TRUE, value |-> d.values[Len(d.values) + d.default_value + 1]]
    ELSE [ok |-> FALSE, raises |-> "IndexError"]

\* parameter.sample(trial), for the trial's suggestion for this parameter: a
\* value of a category, an index into an ordered list
SampleValue(d, suggestion) ==
    IF d.kind = "CategoryParameter" THEN suggestion ELSE d.values[suggestion + 1]

\* the defaults the declarations of a parameter space are given
CategoryDefaults == {3, 7}
IndexDefaults == {-1, 1, 2}
MaxDifferences == {-1, 0}

NoSample == [raises |-> "none", parameters |-> EmptyDict, made |-> FALSE]

\* The class body of CpSatParameterSpace: parameter_space = [...], a category
\* and an ordered-list descriptor constructed in this order; an exception of a
\* constructor ends the declaration.
DeclareParameterSpace(category_default, index_default) ==
    /\ pc = "start"
    /\ LET category == CategoryParameterInit("fp_rounding", category_default,
                                             <<0, 1, 3, 2>>)
           ordered == IntFromOrderedListParameterInit("cut_level", index_default,
                                                      <<0, 1>>)
       IN IF ~category.ok
          THEN /\ pc' = "failed"
               /\ raised' = category.raises
               /\ UNCHANGED space
          ELSE /\ pc' = "declared"
               /\ UNCHANGED raised
               /\ space' = [state |-> "declared",
                            parameter_space |-> <<category, ordered>>,
                            tunable_parameters |-> {},
                            fixed_parameters |-> EmptyDict,
                            max_difference_to_default |-> -1,
                            last_fix |-> EmptyDict,
                            sampled |-> NoSample]
    /\ UNCHANGED <<ctor, metric, fixed_params, cache, solved, nSolves, call,
                   objective, tuning, evaluator, threads>>

\* CpSatParameterSpace.__init__
CpSatParameterSpaceInit(max_difference_to_default) ==
    /\ pc = "declared"
    /\ pc' = "space"
    /\ space' = [space EXCEPT
          !.state = "space",
          !.fixed_parameters = EmptyDict,
          !.tunable_parameters =
              {space.parameter_space[i].name : i \in DOMAIN space.parameter_space},
          !.max_difference_to_default = max_difference_to_default]
    /\ UNCHANGED <<raised, ctor, metric, fixed_params, cache, solved, nSolves, call,
                   objective, tuning, evaluator, threads>>

\* CpSatParameterSpace.fix_parameter: the fields it assigns
fix_parameter(sp, parameter, value) ==
    [sp EXCEPT
        !.tunable_parameters = @ \ {parameter},
        !.fixed_parameters =
            IF value # NoValue THEN CachePut(@, parameter, value[1]) ELSE @]

\* a call of fix_parameter
FixParameter(parameter, value) ==
    /\ pc = "space"
    /\ space' = [fix_parameter(space, parameter, value) EXCEPT
          !.last_fix = CachePut(@, parameter, value),
          !.sampled = NoSample]
    /\ UNCHANGED <<pc, raised, ctor, metric, fixed_params, cache, solved, nSolves, call,
                   objective, tuning, evaluator, threads>>

RECURSIVE SampleLoop(_, _, _, _, _)
\* the loop of sample over self.tunable_parameters.values(), from the i-th
\* declared parameter on
SampleLoop(sp, trial, i, parameters, num_different) ==
    IF i > Len(sp.parameter_space)
    THEN [raises |-> "none", parameters |-> parameters, made |-> TRUE]
    ELSE LET d == sp.parameter_space[i]
         IN IF d.name \notin sp.tunable_parameters \/ d.name \in DOMAIN sp.fixed_parameters
            THEN SampleLoop(sp, trial, i + 1, parameters, num_different)
            ELSE LET value == SampleValue(d, trial[d.name])
                     default == get_cpsat_default(d)
                 IN IF ~default.ok
                    THEN [raises |-> default.raises, parameters |-> parameters,
                          made |-> TRUE]
                    ELSE IF /\ value # default.value
                            /\ sp.max_difference_to_default >= 0
                            /\ num_different + 1 > sp.max_difference_to_default
                    THEN [raises |-> "TrialPruned", parameters |-> parameters,
                          made |-> TRUE]
                    ELSE SampleLoop(sp, trial, i + 1,
                                    CachePut(parameters, d.name, value),
                                    IF value # default.value
                                    THEN num_different + 1 ELSE num_different)

\* the trials given to sample: None, or a suggestion for every parameter
Trials ==
    {NoValue} \cup
    {<<[k \in {"fp_rounding", "cut_level"} |-> IF k = "fp_rounding" THEN c ELSE i]>> :
        c \in {0, 3}, i \in {0, 1}}

\* CpSatParameterSpace.sample(trial): the parameters set on the solver, the
\* others being left at CP-SAT's defaults
Sample(trial) ==
    /\ pc = "space"
    /\ space' = [space EXCEPT !.sampled =
          IF trial = NoValue
          THEN [raises |-> "none", parameters |-> space.fixed_parameters, made |-> TRUE]
          ELSE SampleLoop(space, trial[1], 1, space.fixed_parameters, 0)]
    /\ UNCHANGED <<pc, raised, ctor, metric, fixed_params, cache, solved, nSolves, call,
                   objective, tuning, evaluator, threads>>

NextSpace ==
    \/ \E c \in CategoryDefaults, i \in IndexDefaults : DeclareParameterSpace(c, i)
    \/ \E m \in MaxDifferences : CpSatParameterSpaceInit(m)
    \/ \E parameter \in {"fp_rounding", "cut_level"}, value \in {NoValue, <<0>>, <<1>>} :
          FixParameter(parameter, value)
    \/ \E trial \in Trials : Sample(trial)

SpecSpace == Init /\ [][NextSpace]_vars

\* the default of a descriptor is in its domain: a value of values for a
\* category, an index of values for an ordered list
DefaultInDomain(d) ==
    IF d.kind = "CategoryParameter" THEN d.default_value \in Range(d.values)
    ELSE d.default_value \in 0 .. (Len(d.values) - 1)

\* C23: a declaration with a category default outside its values fails with
\* an error, and every descriptor of a declared parameter space has its
\* default inside its domain (a member of values, an index from 0 to
\* len(values) - 1) and a name no other descriptor has.
C23_DefaultInDomain ==
    /\ (pc = "failed" /\ space = NoSpace) => raised = "ValueError"
    /\ space # NoSpace =>
          \A i \in DOMAIN space.parameter_space :
              /\ DefaultInDomain(space.parameter_space[i])
              /\ \A j \in DOMAIN space.parameter_space :
                    space.parameter_space[i].name = space.parameter_space[j].name
                       => i = j

\* C26: a parameter whose most recent fix_parameter call passed None is not
\* tunable, is not among the fixed parameters and is not set by sample(); no
\* parameter is both tunable and fixed; a fix_parameter call changes the
\* tunable/fixed status of its own parameter only.
C26_FixToDefault ==
    /\ [](space.state = "space" =>
            /\ \A p \in DOMAIN space.last_fix :
                  space.last_fix[p] = NoValue =>
                      /\ p \notin space.tunable_parameters
                      /\ p \notin DOMAIN space.fixed_parameters
                      /\ p \notin DOMAIN space.sampled.parameters
            /\ space.tunable_parameters \cap DOMAIN space.fixed_parameters = {})
    /\ [][(space.state = "space" /\ space'.last_fix # space.last_fix) =>
            \E p \in DOMAIN space'.last_fix :
               \A q \in {"fp_rounding", "cut_level"} \ {p} :
                  /\ q \in space'.tunable_parameters <=> q \in space.tunable_parameters
                  /\ q \in DOMAIN space'.fixed_parameters
                        <=> q \in DOMAIN space.fixed_parameters
                  /\ q \in DOMAIN space.fixed_parameters =>
                        space'.fixed_parameters[q] = space.fixed_parameters[q]]_vars

---------------------------------------------------------------------------
(* CachingScorer.evaluate called from two threads *)

ThreadIds == {1, 2}

\* a thread that is not inside evaluate
IdleThread(overlap) ==
    [pos |-> "idle", key |-> {}, params |-> EmptyDict, knockout_score |-> NoKnockout,
     cached |-> FALSE, scores |-> <<>>, n_missing |-> 0, overlap |-> overlap]

\* the threads, before and after their first call
ThreadsNow == IF DOMAIN threads = {} THEN [t \in ThreadIds |-> IdleThread(FALSE)] ELSE threads

InEvaluate(th) == th.pos \in {"loop", "insert"}

\* an insert that stores the scores of the call's own runs only
InsertResult_OwnRuns(c, th) ==
    CachePut(c, th.key, MultiResult(th.scores, th.params))

\* self._cache[param_key] = result, where result is the stored object itself
\* when the lookup found one (its scores then are already in the cache), else
\* the object the lookup created
InsertResult(c, th) ==
    IF th.cached THEN c
    ELSE CachePut(c, th.key, MultiResult(th.scores, th.params))

\* evaluate up to the loop: the lookup of line 159, the two early returns and
\* n_missing
ThreadLookup(t) ==
    /\ pc = "ready"
    /\ ThreadsNow[t].pos = "idle"
    /\ \E raw_params \in {EmptyDict, Dict1("cut_level", PInt(0))},
          num_runs \in 1 .. MaxRuns,
          knockout \in ScorerKnockouts :
         LET params == remove_fixed_params(raw_params)
             param_key == create_key_from_params(params)
             result == CacheGet(param_key, params)
             others == {u \in ThreadIds \ {t} : InEvaluate(ThreadsNow[u])}
             pending == IF others = {} THEN 0
                        ELSE ThreadsNow[CHOOSE u \in others : TRUE].n_missing
             early == \/ Len(result.scores) >= num_runs
                      \/ /\ knockout # NoKnockout
                         /\ Len(result.scores) > 0
                         /\ IsKnockedOut(metric, worst(metric, result.scores), knockout)
             overlap == ThreadsNow[t].overlap \/ others # {}
         IN /\ early \/ nSolves + pending + NMissing(num_runs, result) <= SolveBudget
            /\ threads' = [u \in ThreadIds |->
                  IF u # t THEN [ThreadsNow[u] EXCEPT !.overlap = overlap]
                  ELSE IF early THEN [IdleThread(overlap) EXCEPT !.pos = "done"]
                  ELSE [pos |-> "loop", key |-> param_key, params |-> params,
                        knockout_score |-> knockout,
                        cached |-> param_key \in DOMAIN cache,
                        scores |-> IF param_key \in DOMAIN cache THEN <<>>
                                   ELSE result.scores,
                        n_missing |-> NMissing(num_runs, result),
                        overlap |-> overlap]]
    /\ UNCHANGED <<pc, raised, ctor, metric, fixed_params, cache, solved, nSolves, call,
                   objective, tuning, evaluator, space>>

\* one round of the loop: a solver run, result.scores.append(score), and on a
\* knockout the insert and the return
ThreadRun(t) ==
    /\ pc = "ready"
    /\ DOMAIN threads # {}
    /\ threads[t].pos = "loop"
    /\ \E out \in SolveOutcomes(metric) :
         LET th == threads[t]
             score == MetricCall(metric, out)
             grown == [th EXCEPT !.scores = IF th.cached THEN <<>> ELSE Append(th.scores, score),
                                 !.n_missing = th.n_missing - 1]
             appended == IF th.cached
                         THEN CachePut(cache, th.key,
                                 MultiResult(Append(cache[th.key].scores, score),
                                             cache[th.key].params))
                         ELSE cache
             knocked == IsKnockedOut(metric, score, th.knockout_score)
         IN /\ cache' = IF knocked THEN InsertResult(appended, grown) ELSE appended
            /\ solved' = CachePut(solved, th.key,
                            Append(IF th.key \in DOMAIN solved THEN solved[th.key] ELSE <<>>,
                                   score))
            /\ nSolves' = nSolves + 1
            /\ threads' = [threads EXCEPT ![t] =
                  IF knocked THEN [IdleThread(th.overlap) EXCEPT !.pos = "done"]
                  ELSE [grown EXCEPT !.pos = IF grown.n_missing = 0 THEN "insert"
                                             ELSE "loop"]]
    /\ UNCHANGED <<pc, raised, ctor, metric, fixed_params, call,
                   objective, tuning, evaluator, space>>

\* after the loop: self._cache[param_key] = result, and the return
ThreadInsert(t) ==
    /\ pc = "ready"
    /\ DOMAIN threads # {}
    /\ threads[t].pos = "insert"
    /\ cache' = InsertResult(cache, threads[t])
    /\ threads' = [threads EXCEPT ![t] =
                      [IdleThread(threads[t].overlap) EXCEPT !.pos = "done"]]
    /\ UNCHANGED <<pc, raised, ctor, metric, fixed_params, solved, nSolves, call,
                   objective, tuning, evaluator, space>>

\* the callers go on once no call is in progress
ThreadsJoin ==
    /\ pc = "ready"
    /\ DOMAIN threads # {}
    /\ \A t \in ThreadIds : ~InEvaluate(threads[t])
    /\ \E t \in ThreadIds : threads[t].pos = "done"
    /\ threads' = [t \in ThreadIds |-> IdleThread(threads[t].overlap)]
    /\ UNCHANGED <<pc, raised, ctor, metric, fixed_params, cache, solved, nSolves, call,
                   objective, tuning, evaluator, space>>

NextThreads ==
    \/ \E d \in AnyDirections, t \in TimeLimits, o \in TimeoutObjectives :
          tune_for_quality_within_timelimit(t, o, d)
    \/ \E t \in ThreadIds : ThreadLookup(t)
    \/ \E t \in ThreadIds : ThreadRun(t)
    \/ \E t \in ThreadIds : ThreadInsert(t)
    \/ ThreadsJoin

SpecThreads == Init /\ [][NextThreads]_vars

\* the stored scores are exactly the scores of the completed solver runs
StoredAllRuns ==
    /\ DOMAIN cache = DOMAIN solved
    /\ \A k \in DOMAIN cache : cache[k].scores = solved[k]

\* some call began while another one was in progress
Overlapped == \E t \in ThreadIds : ThreadsNow[t].overlap

\* C22: as long as no evaluate call began while another one was in progress,
\* the stored scores are, whenever no call is in progress, exactly the scores
\* of all completed solver runs; and a step that leaves completed runs out of
\* the cache replaces a stored entry by one that does not extend it, and is
\* the insert of a call whose lookup found no entry for its assignment and
\* that overlapped with the call that stored the entry.
C22_SerializedComplete ==
    /\ []((pc = "ready" /\ ~Overlapped /\ \A t \in ThreadIds : ~InEvaluate(ThreadsNow[t]))
            => StoredAllRuns)
    /\ [][\A k \in DOMAIN cache :
            ~(k \in DOMAIN cache' /\ IsPrefix(cache[k].scores, cache'[k].scores))
            => /\ Overlapped
               /\ \E t \in ThreadIds :
                    /\ threads[t].key = k
                    /\ ~threads[t].cached
                    /\ threads'[t].pos = "done"]_vars

\* two calls on the same assignment, not cached when either looked it up, have
\* both returned, and the cache holds fewer scores for it than solver runs
\* were completed
C22_Witness ==
    /\ pc = "ready"
    /\ Overlapped
    /\ \A t \in ThreadIds : ThreadsNow[t].pos = "done"
    /\ \E k \in DOMAIN solved :
            k \in DOMAIN cache /\ Len(cache[k].scores) < Len(solved[k])

---------------------------------------------------------------------------
(* A whole _tune session: the baseline, the enqueued default trial, the
   remaining trials, the return *)

\* the sample counts and trial counts callers pass
SessionSamples == {1, 2, 3}
SessionTrials == {1, 2}

\* the most solver runs a session makes: the baseline's
\* n_samples_for_verification, for the default trial the runs that
\* n_samples_for_trial asks beyond them, and for each later trial the runs that
\* bring one assignment to the larger of the two sample counts
SessionRuns(n_samples_for_verification, n_samples_for_trial, n_trials) ==
    n_samples_for_verification
        + Max2(n_samples_for_trial - n_samples_for_verification, 0)
        + (n_trials - 1) * Max2(n_samples_for_verification, n_samples_for_trial)

\* (n_samples_for_verification, n_samples_for_trial, n_trials) of the sessions
\* whose solver runs fit the budget of a session
Sessions ==
    {s \in SessionSamples \X SessionSamples \X SessionTrials :
        /\ s[1] <= MaxSolves
        /\ SessionRuns(s[1], s[2], s[3]) <= MaxSolves + s[1]}

\* study.enqueue_trial(default_params): the first trial of study.optimize
\* proposes the default configuration, the sampler chooses the later ones
SessionTrial(params) ==
    /\ tuning # NoTuning
    /\ tuning.done = 0 => params = EmptyDict
    /\ StrategyTrial(params)

NextSession ==
    \/ \E d \in AnyDirections, t \in TimeLimits, o \in TimeoutObjectives :
          tune_for_quality_within_timelimit(t, o, d)
    \/ \E s \in Sessions : TuneBaseline(s[1], s[2], s[3])
    \/ \E params \in TuneCandidates : SessionTrial(params)
    \/ StrategyReturn
    \/ TuneFinish

SpecSession == Init /\ [][NextSession]_vars

\* every solve call returns and the search loop goes on to its next step
SpecSessionFair == SpecSession /\ WF_vars(NextSession)

Baseline(c) == c[create_key_from_params(EmptyDict)]

InSession == tuning # NoTuning /\ tuning.state \in {"trials", "evaluated"}

=============================================================================
